---- MODULE Spec2Model ----
(***************************************************************************)
(* Notification targeting, fan-out and delivery tracking of the schoolsite  *)
(* backend: the audience resolver (buildRecipientQuery and the role         *)
(* override of sendNotificationNow), the default-target inference of        *)
(* createNotification, the in-memory connection registry (connectedUsers),  *)
(* the delivery engine (sendNotificationNow) and the scheduled-notification *)
(* poller (startScheduledNotificationWorker).                               *)
(*                                                                          *)
(* The specifications of the module share its variables:                   *)
(*   SpecQuery    - the pure pipeline request body -> stored target ->      *)
(*                  recipient filter, over a bounded set of inputs;         *)
(*   SpecRegistry - connect / disconnect events on connectedUsers;          *)
(*   SpecStale    - SpecRegistry with disconnect events for handles the     *)
(*                  registry does not hold;                                 *)
(*   Spec         - the notification store, createNotification, the         *)
(*                  delivery engine and overlapping scheduler ticks,        *)
(*                  interleaved at the awaits of the code;                  *)
(*   SpecCreate   - one creation request for each scheduledAt input;        *)
(*   SpecAuthor   - creation requests of every kind and their replies;      *)
(*   SpecBatch    - one tick over a batch of two due notifications;         *)
(*   SpecFanOut   - immediate delivery while emits to connections throw;    *)
(*   SpecRead     - markAsRead requests during and after delivery;          *)
(*   SpecLive     - fair ticks over more due notifications than one batch   *)
(*                  holds;                                                  *)
(*   SpecReadTicks - markAsRead requests while overlapping ticks deliver    *)
(*                  one due notification.                                   *)
(***************************************************************************)
EXTENDS Integers, Sequences, FiniteSets, TLC

\* ------------------------------------------------------------------ bounds
\* Longest department string (in characters) a request may carry.
MaxDeptLen == 2

\* ------------------------------------------------------------ strings
\* A department is a JavaScript string, modelled as a sequence of characters.
DeptChars == {"C", "p", " "}

RECURSIVE StringsUpTo(_)
StringsUpTo(n) ==
  IF n = 0 THEN {<<>>}
  ELSE LET S == StringsUpTo(n - 1)
       IN  S \cup {Append(s, c) : s \in {t \in S : Len(t) = n - 1}, c \in DeptChars}

\* String.prototype.toLowerCase, one character.
LowerChar(c) == IF c = "C" THEN "c" ELSE c

toLowerCase(s) == [i \in 1..Len(s) |-> LowerChar(s[i])]

RECURSIVE trimStart(_)
trimStart(s) == IF s # <<>> /\ Head(s) = " " THEN trimStart(Tail(s)) ELSE s

RECURSIVE trimEnd(_)
trimEnd(s) ==
  IF s # <<>> /\ s[Len(s)] = " " THEN trimEnd(SubSeq(s, 1, Len(s) - 1)) ELSE s

\* String.prototype.trim
trim(s) == trimEnd(trimStart(s))

\* normalizeDept on a string (the undefined / null pass-through is the
\* "has" flag of the optional value that carries the string).
normalizeDept(d) == toLowerCase(trim(d))

\* The closed role enumeration of the User schema.
Roles ==
  {"student", "lecturer", "hod", "levelAdviser", "dean", "subDean",
   "facultyOfficer", "admin"}

\* normalizeRole: String(r || "").toLowerCase() on the role enumeration.
normalizeRole(r) ==
  CASE r = "levelAdviser"   -> "leveladviser"
    [] r = "subDean"        -> "subdean"
    [] r = "facultyOfficer" -> "facultyofficer"
    [] OTHER                -> r

\* The staff role list written out in buildRecipientQuery / sendNotificationNow.
StaffRoles ==
  {"lecturer", "hod", "levelAdviser", "dean", "subDean", "facultyOfficer", "admin"}

\* ALLOWED_SENDER_ROLES of createNotification (compared after normalizeRole).
ALLOWED_SENDER_ROLES ==
  {"lecturer", "hod", "leveladviser", "dean", "subdean", "facultyofficer", "admin"}

\* staffRolesNoDeptAllowed of createNotification.
staffRolesNoDeptAllowed == {"dean", "subdean", "admin"}

\* deptScoped of buildRecipientQuery.
deptScoped == {"lecturer", "hod", "leveladviser"}

\* ------------------------------------------------------- optional values
\* A JavaScript property that may be absent: has = FALSE is undefined.
Some(x) == [has |-> TRUE, v |-> x]
Absent(dflt) == [has |-> FALSE, v |-> dflt]
Opt(S, dflt) == {Absent(dflt)} \cup {Some(x) : x \in S}

Range(s) == {s[i] : i \in 1..Len(s)}

RECURSIVE SelectNonEmpty(_)
\* Array.prototype.filter(Boolean) on an array of strings: "" is dropped.
SelectNonEmpty(s) ==
  IF s = <<>> THEN <<>>
  ELSE IF Head(s) = <<>> THEN SelectNonEmpty(Tail(s))
       ELSE <<Head(s)>> \o SelectNonEmpty(Tail(s))

MapNormalizeDept(s) == [i \in 1..Len(s) |-> normalizeDept(s[i])]

\* ------------------------------------------------------------- targets
\* The target of a request body: every key may be absent.
TargetKeys == {"all", "departments", "levels", "roles", "staffOnly", "studentsOnly"}

\* Object.keys(target).length
KeyCount(t) == Cardinality({k \in TargetKeys : t[k].has})

\* JavaScript truthiness of an optional boolean.
Truthy(o) == o.has /\ o.v

\* Array.isArray(x) && x.length > 0
NonEmptyArray(o) == o.has /\ o.v # <<>>

\* The target sub-document of the Notification schema: absent keys take the
\* schema defaults (false, []).
SchemaTarget(t) ==
  [all          |-> Truthy(t.all),
   departments  |-> IF t.departments.has THEN t.departments.v ELSE <<>>,
   levels       |-> IF t.levels.has THEN t.levels.v ELSE <<>>,
   roles        |-> IF t.roles.has THEN t.roles.v ELSE <<>>,
   staffOnly    |-> Truthy(t.staffOnly),
   studentsOnly |-> Truthy(t.studentsOnly)]

\* Mutant of LevelAdviserDefault: only a missing levels key is defaulted, an
\* empty list is kept.
LevelAdviserDefaultAbsentOnly(sender, t) ==
  IF normalizeRole(sender.role) = "leveladviser"
     /\ ~t.levels.has
     /\ sender.level # 0
  THEN [t EXCEPT !.levels = Some(<<sender.level>>)]
  ELSE t

\* createNotification: the levelAdviser default of target.levels.
LevelAdviserDefault(sender, t) ==
  IF normalizeRole(sender.role) = "leveladviser"
     /\ ~NonEmptyArray(t.levels)
     /\ sender.level # 0
  THEN [t EXCEPT !.levels = Some(<<sender.level>>)]
  ELSE t

\* Mutant of DefaultTarget: dean, subDean and admin default to all alone.
DefaultTargetAllOnly(sender, t) ==
  IF KeyCount(t) = 0
  THEN IF normalizeRole(sender.role) \in staffRolesNoDeptAllowed
       THEN [t EXCEPT !.all = Some(TRUE)]
       ELSE [t EXCEPT !.studentsOnly = Some(TRUE)]
  ELSE t

\* createNotification: the default target when the body carries none.
DefaultTarget(sender, t) ==
  IF KeyCount(t) = 0
  THEN IF normalizeRole(sender.role) \in staffRolesNoDeptAllowed
       THEN [t EXCEPT !.all = Some(TRUE), !.studentsOnly = Some(TRUE)]
       ELSE [t EXCEPT !.studentsOnly = Some(TRUE)]
  ELSE t

\* createNotification: normalisation of target.departments.
NormalizeTargetDepartments(t) ==
  IF NonEmptyArray(t.departments)
  THEN [t EXCEPT !.departments = Some(SelectNonEmpty(MapNormalizeDept(t.departments.v)))]
  ELSE t

\* createNotification, from the role check to the target handed to
\* new Notification(...): the target as stored.
StoredTarget(sender, t) ==
  SchemaTarget(NormalizeTargetDepartments(DefaultTarget(sender, LevelAdviserDefault(sender, t))))

\* createNotification: "Forbidden: only staff can create notifications".
SenderAllowed(sender) == normalizeRole(sender.role) \in ALLOWED_SENDER_ROLES

\* --------------------------------------------------- recipient filter
\* One field of a Mongo filter: unrestricted, equal to a value, or $in a set.
NoFilter == [kind |-> "none", v |-> {}]
EqFilter(x) == [kind |-> "eq", v |-> {x}]
InFilter(S) == [kind |-> "in", v |-> S]

\* buildRecipientQuery: the roles logic.
RoleNarrowing(target) ==
  IF target.roles # <<>> THEN InFilter(Range(target.roles))
  ELSE IF target.studentsOnly /\ ~target.staffOnly THEN EqFilter("student")
  ELSE IF target.staffOnly /\ ~target.studentsOnly THEN InFilter(StaffRoles)
  ELSE NoFilter

\* Mutant of DeptNarrowing: the department of a department-scoped sender is
\* added to the target departments.
DeptNarrowingAddsSender(sender, senderRole, target) ==
  LET own == IF normalizeRole(senderRole) \in deptScoped
                /\ sender.department.has /\ sender.department.v # <<>>
             THEN {normalizeDept(sender.department.v)}
             ELSE {}
  IN  IF target.departments # <<>>
      THEN LET depts == SelectNonEmpty(MapNormalizeDept(target.departments))
           IN  IF depts # <<>> THEN InFilter(Range(depts) \cup own) ELSE NoFilter
      ELSE IF own # {} THEN EqFilter(normalizeDept(sender.department.v))
           ELSE NoFilter

\* Mutant of DeptNarrowing: the sender's role is compared with deptScoped
\* as stored, without normalizeRole.
DeptNarrowingRawRole(sender, senderRole, target) ==
  IF target.departments # <<>>
  THEN LET depts == SelectNonEmpty(MapNormalizeDept(target.departments))
       IN  IF depts # <<>> THEN InFilter(Range(depts)) ELSE NoFilter
  ELSE IF senderRole \in deptScoped
          /\ sender.department.has /\ sender.department.v # <<>>
       THEN EqFilter(normalizeDept(sender.department.v))
       ELSE NoFilter

\* buildRecipientQuery: department filtering.
DeptNarrowing(sender, senderRole, target) ==
  IF target.departments # <<>>
  THEN LET depts == SelectNonEmpty(MapNormalizeDept(target.departments))
       IN  IF depts # <<>> THEN InFilter(Range(depts)) ELSE NoFilter
  ELSE IF normalizeRole(senderRole) \in deptScoped
          /\ sender.department.has /\ sender.department.v # <<>>
       THEN EqFilter(normalizeDept(sender.department.v))
       ELSE NoFilter

\* buildRecipientQuery: levels.
LevelNarrowing(target) ==
  IF target.levels # <<>> THEN InFilter(Range(target.levels)) ELSE NoFilter

\* Mutant of buildRecipientQuery: no early return on target.all.
buildRecipientQueryNoAllReturn(sender, senderRole, target) ==
  [isActive |-> TRUE, role |-> RoleNarrowing(target),
   department |-> DeptNarrowing(sender, senderRole, target),
   level |-> LevelNarrowing(target)]

buildRecipientQuery(sender, senderRole, target) ==
  LET q == [isActive |-> TRUE, role |-> RoleNarrowing(target),
            department |-> NoFilter, level |-> NoFilter]
  IN  IF target.all THEN q
      ELSE [q EXCEPT !.department = DeptNarrowing(sender, senderRole, target),
                     !.level = LevelNarrowing(target)]

\* Mutant of RoleOverride: staffOnly is looked at before studentsOnly.
RoleOverrideStaffFirst(q, target) ==
  IF target.staffOnly THEN [q EXCEPT !.role = InFilter(StaffRoles)]
  ELSE IF target.studentsOnly THEN [q EXCEPT !.role = EqFilter("student")]
  ELSE q

\* Mutant of RoleOverride: the query of buildRecipientQuery is used as is.
RoleOverrideNone(q, target) == q

\* sendNotificationNow: studentsOnly / staffOnly written over the role of the
\* query that buildRecipientQuery returned.
RoleOverride(q, target) ==
  IF target.studentsOnly THEN [q EXCEPT !.role = EqFilter("student")]
  ELSE IF target.staffOnly THEN [q EXCEPT !.role = InFilter(StaffRoles)]
  ELSE q

\* The filter sendNotificationNow hands to User.find.
recipientQuery(sender, senderRole, target) ==
  RoleOverride(buildRecipientQuery(sender, senderRole, target), target)

\* ---------------------------------------------------------------- state
\* The users of the system (documents of the User collection).
Users == {"u1", "u2"}

\* Roles a connection may carry: socket.data.role is the token's role, which
\* may differ from one connection of a user to the next.
SocketRoles == {"student", "lecturer"}

\* Most connections ever opened in a run of SpecRegistry.
MaxConnects == 4

VARIABLES
  \* ---- SpecQuery: one request through createNotification and resolution
  qPhase,          \* "input", "created", "rejected", "resolved"
  qSender,         \* the sender's user document
  qBody,           \* the target of the request body
  qTarget,         \* the target as stored on the notification
  qFilter,         \* the filter handed to User.find
  qScheduledAt,    \* the scheduledAt of the request body
  replies,         \* the replies the HTTP handlers have sent so far
  \* ---- the connection registry (config/socket.js)
  connectedUsers,  \* Map<userId, {role, sockets}>: a function on its key set
  sockets,         \* sid -> [state, uid, role]: the connections themselves;
                   \*        state "broken": registered, and an emit to it throws
  connects,        \* number of connections opened so far (the next sid)
  userOffline,     \* uid -> number of userOffline broadcasts so far
  onlinePeriods,   \* uid -> number of times the user went from no open
                   \*        connection to one
  \* ---- the stores, the clock and the running handlers
  userDb,          \* the User collection: uid -> [exists, isActive]
  notifs,          \* the Notification collection: id -> document
  now,             \* Date.now(), in milliseconds
  faults,          \* number of failed store operations and removed users
  proc,            \* per running handler: its position and its locals
  handed,          \* id -> times a scheduler tick called sendNotificationNow
  pushed           \* id -> connections that were sent notification:new

queryVars == <<qPhase, qSender, qBody, qTarget, qFilter, qScheduledAt, replies>>
registryVars == <<connectedUsers, sockets, connects, userOffline, onlinePeriods>>
storeVars == <<userDb, notifs, now, faults, proc, handed, pushed>>
vars == <<queryVars, registryVars, storeVars>>

\* SpecQuery's variables in the other specifications.
QueryIdle ==
  /\ qPhase = "off"
  /\ qSender = "none"
  /\ qBody = "none"
  /\ qTarget = "none"
  /\ qFilter = "none"
  /\ qScheduledAt = "none"
  /\ replies = {}

\* ----------------------------------------------------------- registry
Sids == 1..MaxConnects

NoSocket == [state |-> "unused", uid |-> "u1", role |-> "student"]

RegistryInit ==
  /\ connectedUsers = <<>>
  /\ sockets = [s \in Sids |-> NoSocket]
  /\ connects = 0
  /\ userOffline = [u \in Users |-> 0]
  /\ onlinePeriods = [u \in Users |-> 0]

OpenSockets(uid) ==
  {s \in Sids : sockets[s].state \in {"open", "broken"} /\ sockets[s].uid = uid}

\* Mutant of Register: a new connection replaces the handles of the entry.
RegisterReplacesSockets(reg, uid, role, sid) ==
  [u \in DOMAIN reg \cup {uid} |->
     IF u = uid THEN [role |-> role, sockets |-> {sid}] ELSE reg[u]]

\* connectedUsers.set(uid, entry) / entry.role = role; entry.sockets.add(sid)
Register(reg, uid, role, sid) ==
  LET old == IF uid \in DOMAIN reg THEN reg[uid].sockets ELSE {}
  IN  [u \in DOMAIN reg \cup {uid} |->
         IF u = uid THEN [role |-> role, sockets |-> old \cup {sid}] ELSE reg[u]]

\* Mutant of Unregister: the entry is kept when its last socket goes.
UnregisterKeepEntry(reg, uid, sid) ==
  IF uid \notin DOMAIN reg THEN reg
  ELSE [reg EXCEPT ![uid].sockets = @ \ {sid}]

\* Mutant of Unregister: a handle the entry does not hold removes the entry.
UnregisterUnknownDropsEntry(reg, uid, sid) ==
  IF uid \notin DOMAIN reg THEN reg
  ELSE LET left == IF sid \in reg[uid].sockets THEN reg[uid].sockets \ {sid} ELSE {}
       IN  IF left = {}
           THEN [u \in DOMAIN reg \ {uid} |-> reg[u]]
           ELSE [reg EXCEPT ![uid].sockets = left]

\* entry.sockets.delete(sid); if the set is now empty, connectedUsers.delete(uid)
Unregister(reg, uid, sid) ==
  IF uid \notin DOMAIN reg THEN reg
  ELSE LET left == reg[uid].sockets \ {sid}
       IN  IF left = {}
           THEN [u \in DOMAIN reg \ {uid} |-> reg[u]]
           ELSE [reg EXCEPT ![uid].sockets = left]

\* Mutant of EmitsOffline: every disconnect of a registered user broadcasts.
EmitsOfflineEveryDisconnect(reg, uid, sid) == uid \in DOMAIN reg

\* Whether the disconnect handler broadcasts userOffline.
EmitsOffline(reg, uid, sid) ==
  uid \in DOMAIN reg /\ reg[uid].sockets \ {sid} = {}

\* io.on("connection"): a new socket sid of user uid with role `role`.
Connect(uid, role, limit) ==
  /\ connects < limit
  /\ LET sid == connects + 1
     IN  /\ connectedUsers' = Register(connectedUsers, uid, role, sid)
         /\ sockets' = [sockets EXCEPT ![sid] = [state |-> "open", uid |-> uid, role |-> role]]
         /\ onlinePeriods' =
              IF OpenSockets(uid) = {}
              THEN [onlinePeriods EXCEPT ![uid] = @ + 1]
              ELSE onlinePeriods
  /\ connects' = connects + 1
  /\ UNCHANGED userOffline

\* socket.on("disconnect") of the open socket sid.
Disconnect(sid) ==
  /\ sockets[sid].state \in {"open", "broken"}
  /\ LET uid == sockets[sid].uid
     IN  /\ connectedUsers' = Unregister(connectedUsers, uid, sid)
         /\ userOffline' =
              IF EmitsOffline(connectedUsers, uid, sid)
              THEN [userOffline EXCEPT ![uid] = @ + 1]
              ELSE userOffline
  /\ sockets' = [sockets EXCEPT ![sid].state = "closed"]
  /\ UNCHANGED <<connects, onlinePeriods>>

\* socket.on("disconnect") run once more for the closed socket sid, whose
\* handle the registry no longer holds.
StaleDisconnect(sid) ==
  /\ sockets[sid].state = "closed"
  /\ LET uid == sockets[sid].uid
     IN  /\ connectedUsers' = Unregister(connectedUsers, uid, sid)
         /\ userOffline' =
              IF EmitsOffline(connectedUsers, uid, sid)
              THEN [userOffline EXCEPT ![uid] = @ + 1]
              ELSE userOffline
  /\ sockets' = [sockets EXCEPT ![sid].state = "gone"]
  /\ UNCHANGED <<connects, onlinePeriods>>

\* The room role:<role> of routes/auth.js: the connections that joined it
\* with socket.join(`role:${role}`) when they connected; a socket leaves its
\* rooms when it disconnects.
RoleRoom(role) ==
  {sid \in Sids : sockets[sid].state \in {"open", "broken"} /\ sockets[sid].role = role}

RECURSIVE SumSizes(_, _)
SumSizes(reg, U) ==
  IF U = {} THEN 0
  ELSE LET u == CHOOSE x \in U : TRUE
       IN  Cardinality(reg[u].sockets) + SumSizes(reg, U \ {u})

\* The number emitToRole of routes/auth.js returns after the room emit:
\* count += entry.sockets.size over the entries with entry.role === role.
EmitToRoleCount(reg, role) ==
  SumSizes(reg, {u \in DOMAIN reg : reg[u].role = role})

RegConnect == \E uid \in Users, role \in SocketRoles : Connect(uid, role, MaxConnects)

RegDisconnect == \E sid \in Sids : Disconnect(sid)

\* ------------------------------------------------------------ the stores
\* Most notifications ever created in a run of Spec.
MaxNotifs == 2

\* Most executions of the scheduler's tick that overlap.
MaxTicks == 2

\* Most disturbances in a run of Spec: store operations that fail, and
\* users that are deleted or deactivated.
MaxFaults == 1

\* Most store operations that fail in a run of SpecBatch.
MaxBatchFaults == 2

\* Most connections opened in a run of Spec.
MaxLiveConnects == 1

\* Number of steps the clock takes in a run of Spec.
MaxClockSteps == 1

\* parseValidScheduledAt: a date is accepted when later than now + 1000 ms.
ScheduleMarginMs == 1000

\* The smallest delay that createNotification accepts as a schedule.
ClockStep == ScheduleMarginMs + 500

\* The batch size of the scheduler's query: .limit(50).
BatchLimit == 50

NotifIds == 1..MaxNotifs

Ticks == 1..MaxTicks

\* The handler of POST /notifications (createNotification).
Api == MaxTicks + 1

Procs == Ticks \cup {Api}

\* The documents of the User collection (role, department and level do not
\* change in Spec; existence and isActive are in userDb).
UserDoc(u) ==
  IF u = "u1"
  THEN [role |-> "lecturer", department |-> Some(<<"c">>), level |-> 100]
  ELSE [role |-> "student", department |-> Some(<<"c">>), level |-> 100]

\* The order in which a query returns users.
UserOrder == <<"u1", "u2">>

FieldOk(f, x) == f.kind = "none" \/ x \in f.v

\* Mutant of Matches: isActive is not looked at.
MatchesAnyActivity(db, u, q) ==
  /\ db[u].exists
  /\ FieldOk(q.role, UserDoc(u).role)
  /\ q.department.kind # "none" =>
       (UserDoc(u).department.has /\ UserDoc(u).department.v \in q.department.v)
  /\ FieldOk(q.level, UserDoc(u).level)

\* Whether user u matches the filter q.
Matches(db, u, q) ==
  /\ db[u].exists
  /\ q.isActive => db[u].isActive
  /\ FieldOk(q.role, UserDoc(u).role)
  /\ q.department.kind # "none" =>
       (UserDoc(u).department.has /\ UserDoc(u).department.v \in q.department.v)
  /\ FieldOk(q.level, UserDoc(u).level)

\* Mutant of Find: the users are collected role by role and a student is
\* returned once more by a second pass.
FindByRolePasses(db, q) ==
  LET IsMatch(u) == Matches(db, u, q)
      IsStudent(u) == Matches(db, u, q) /\ UserDoc(u).role = "student"
  IN  SelectSeq(UserOrder, IsMatch) \o SelectSeq(UserOrder, IsStudent)

\* User.find(recipientQuery): each matching document once.
Find(db, q) ==
  LET IsMatch(u) == Matches(db, u, q)
  IN  SelectSeq(UserOrder, IsMatch)

\* User.find({ _id: { $in: userIds } })
FindByIds(db, ids) ==
  LET IsIn(u) == db[u].exists /\ u \in ids
  IN  SelectSeq(UserOrder, IsIn)

\* The users of a query result that are inactive when the query returns.
Inactive(db, found) == {u \in Range(found) : ~db[u].isActive}

\* A DeliveryItem as the schema creates it from { user }.
NewItem(u) == [user |-> u, read |-> FALSE, deliveredAt |-> FALSE]

\* Mutant of ItemsOf: items only for the recipients that are connected.
ItemsOfConnected(recipients) ==
  LET online == SelectSeq(recipients, LAMBDA u : u \in DOMAIN connectedUsers)
  IN  [i \in 1..Len(online) |-> NewItem(online[i])]

ItemsOf(recipients) == [i \in 1..Len(recipients) |-> NewItem(recipients[i])]

ItemUsers(items) == {items[i].user : i \in 1..Len(items)}

RECURSIVE Dedupe(_)
\* sendNotificationNow: "dedupe recipients" (first occurrence kept).
Dedupe(s) ==
  IF s = <<>> THEN <<>>
  ELSE LET init == Dedupe(SubSeq(s, 1, Len(s) - 1))
           last == s[Len(s)]
       IN  IF last \in Range(init) THEN init ELSE Append(init, last)

\* A notification that has not been created.
NoTarget == SchemaTarget([k \in TargetKeys |->
              IF k \in {"departments", "levels", "roles"} THEN Absent(<<>>) ELSE Absent(FALSE)])

NoNotif ==
  [status |-> "none", sender |-> "u1", senderRole |-> "lecturer",
   target |-> NoTarget, scheduledAt |-> 0, items |-> <<>>,
   deliveryCount |-> 0, lastError |-> "none"]

\* The in-memory mongoose document of a handler: the fields it may assign
\* and the set of paths modified since the last successful save.
NoDoc ==
  [id |-> 0, status |-> "none", items |-> <<>>, deliveryCount |-> 0,
   lastError |-> "none", dirty |-> {}]

\* A handler that is not running.
IdleProc ==
  [pc |-> "idle", list |-> <<>>, idx |-> 0, doc |-> NoDoc, recipients |-> <<>>,
   emittedSockets |-> 0, sentTo |-> {}, byTarget |-> FALSE, itemsWrite |-> "none",
   inactive |-> {}, marked |-> "none"]

\* Notification.findById(id): a fresh in-memory copy of the stored document.
LoadDoc(store, id) ==
  [id |-> id, status |-> store[id].status, items |-> store[id].items,
   deliveryCount |-> store[id].deliveryCount, lastError |-> store[id].lastError,
   dirty |-> {}]

\* notification.save() that succeeds: the modified paths are written.
SaveDoc(store, d) ==
  [store EXCEPT ![d.id] =
     [@ EXCEPT !.status = IF "status" \in d.dirty THEN d.status ELSE @,
               !.items = IF "items" \in d.dirty THEN d.items ELSE @,
               !.deliveryCount = IF "deliveryCount" \in d.dirty THEN d.deliveryCount ELSE @,
               !.lastError = IF "meta" \in d.dirty THEN d.lastError ELSE @]]

StoreInit ==
  /\ userDb = [u \in Users |-> [exists |-> TRUE, isActive |-> TRUE]]
  /\ notifs = [n \in NotifIds |-> NoNotif]
  /\ now = 0
  /\ faults = 0
  /\ proc = [p \in Procs |-> IdleProc]
  /\ handed = [n \in NotifIds |-> 0]
  /\ pushed = [n \in NotifIds |-> {}]

\* --------------------------------------------------- store operations
\* The disturbances allowed in the running specification.
FaultBudget ==
  IF qPhase = "batch" THEN MaxBatchFaults
  ELSE IF qPhase = "live" THEN 0
  ELSE MaxFaults

\* A store operation succeeds, or fails while the fault budget lasts.
Outcome(ok) ==
  /\ ok \/ faults < FaultBudget
  /\ faults' = IF ok THEN faults ELSE faults + 1

SetProc(p, l) == proc' = [proc EXCEPT ![p] = l]

\* After a save that failed the modified paths are either still marked (the
\* save can be retried) or were reset when the update was issued: which one
\* depends on the mongoose version, and both are allowed.
AfterFailedSave(d, keep) == IF keep THEN d ELSE [d EXCEPT !.dirty = {}]

Saved(d) == [d EXCEPT !.dirty = {}]

\* ------------------------------------------------------- delivery engine
\* emitToUser / emitToRole: global.io.to(sid).emit(...) inside try/catch, the
\* count going up only when the emit did not throw.
Reached(S) == {sid \in S : sockets[sid].state # "broken"}

\* The connections emitToUser(userId, ...) emits to.
UserSockets(reg, u) == IF u \in DOMAIN reg THEN Reached(reg[u].sockets) ELSE {}

RECURSIVE SumSockets(_, _)
\* emittedSockets += emitToUser(r._id, ...) over the recipients.
SumSockets(reg, rec) ==
  IF rec = <<>> THEN 0
  ELSE Cardinality(UserSockets(reg, Head(rec))) + SumSockets(reg, Tail(rec))

\* The connections emitToRole(role, ...) emits to.
RoleSockets(reg, role) ==
  Reached(UNION {reg[u].sockets : u \in {x \in DOMAIN reg : reg[x].role = role}})

RECURSIVE SumRoleSockets(_, _)
\* emittedSockets += emitToRole(role, ...) over target.roles.
SumRoleSockets(reg, roles) ==
  IF roles = <<>> THEN 0
  ELSE Cardinality(RoleSockets(reg, Head(roles))) + SumRoleSockets(reg, Tail(roles))

\* The connections the fan-out of one delivery emits to.
FanOutSockets(reg, rec, roles) ==
  UNION {UserSockets(reg, u) : u \in Range(rec)}
    \cup UNION {RoleSockets(reg, r) : r \in Range(roles)}

\* Mutant of Finalize: deliveryCount is the number of connections reached.
FinalizeCountsSockets(l) ==
  [l EXCEPT !.doc.status = "completed",
            !.doc.deliveryCount = l.emittedSockets,
            !.doc.dirty = @ \cup {"status", "deliveryCount"},
            !.pc = "saveCompleted"]

\* sendNotificationNow: "finalize notification record", up to the save.
Finalize(l) ==
  [l EXCEPT !.doc.status = "completed",
            !.doc.deliveryCount = Len(l.recipients),
            !.doc.dirty = @ \cup {"status", "deliveryCount"},
            !.pc = "saveCompleted"]

\* Mutant of FanOut: an emit that throws ends the fan-out in the catch block
\* of sendNotificationNow.
FanOutAbortsOnError(l, reg, target) ==
  LET rec == Dedupe(l.recipients)
      m == [l EXCEPT !.recipients = rec,
                     !.emittedSockets = SumSockets(reg, rec)
                                          + SumRoleSockets(reg, target.roles),
                     !.sentTo = @ \cup FanOutSockets(reg, rec, target.roles)]
      attempted == UNION {reg[u].sockets :
                            u \in {x \in DOMAIN reg :
                                     \/ x \in Range(rec)
                                     \/ reg[x].role \in Range(target.roles)}}
  IN  IF attempted # Reached(attempted)
      THEN [l EXCEPT !.recipients = rec,
                     !.doc.status = "failed",
                     !.doc.lastError = "error",
                     !.doc.dirty = @ \cup {"status", "meta"},
                     !.pc = "saveFailed"]
      ELSE IF Len(rec) > 0 THEN [m EXCEPT !.pc = "updateDelivered"] ELSE Finalize(m)

\* Mutant of FanOut: an empty recipient list ends in the catch block of
\* sendNotificationNow.
FanOutEmptyFails(l, reg, target) ==
  LET rec == Dedupe(l.recipients)
      m == [l EXCEPT !.recipients = rec,
                     !.emittedSockets = SumSockets(reg, rec)
                                          + SumRoleSockets(reg, target.roles),
                     !.sentTo = @ \cup FanOutSockets(reg, rec, target.roles)]
  IN  IF Len(rec) > 0 THEN [m EXCEPT !.pc = "updateDelivered"]
      ELSE [l EXCEPT !.recipients = rec,
                     !.doc.status = "failed",
                     !.doc.lastError = "error",
                     !.doc.dirty = @ \cup {"status", "meta"},
                     !.pc = "saveFailed"]

\* sendNotificationNow from "dedupe recipients" to the next store operation:
\* the fan-out loops run without an await, then deliveredAt is updated when
\* there are recipients, else the record is finalized.
FanOut(l, reg, target) ==
  LET rec == Dedupe(l.recipients)
      m == [l EXCEPT !.recipients = rec,
                     !.emittedSockets = SumSockets(reg, rec)
                                          + SumRoleSockets(reg, target.roles),
                     !.sentTo = @ \cup FanOutSockets(reg, rec, target.roles)]
  IN  IF Len(rec) > 0 THEN [m EXCEPT !.pc = "updateDelivered"] ELSE Finalize(m)

\* Mutant of Caught: the error leaves sendNotificationNow and reaches the
\* catch of the caller's loop.
CaughtRethrows(l) == [l EXCEPT !.pc = "markFailed"]

\* sendNotificationNow: the catch block, up to its save.
Caught(l) ==
  [l EXCEPT !.doc.status = "failed",
            !.doc.lastError = "error",
            !.doc.dirty = @ \cup {"status", "meta"},
            !.pc = "saveFailed"]

\* sendNotificationNow from its entry to its first store operation.
EnterSend(l) ==
  IF l.doc.items # <<>>
  THEN [l EXCEPT !.pc = "findItemsUsers", !.byTarget = FALSE]
  ELSE [l EXCEPT !.pc = "findSender", !.byTarget = TRUE]

\* The scheduler's loop after one item: the next item, or the tick ends.
NextItem(l) ==
  IF l.idx < Len(l.list)
  THEN [IdleProc EXCEPT !.pc = "findById", !.list = l.list, !.idx = l.idx + 1]
  ELSE IdleProc

\* The caller after sendNotificationNow has returned.
Returned(p, l) == IF p \in Ticks THEN NextItem(l) ELSE IdleProc

\* The record of the connections that were sent notification:new.
Pushes(l) == pushed' = [pushed EXCEPT ![l.doc.id] = @ \cup l.sentTo]

\* Mutant of Resolved: the fan-out runs as soon as the recipients are found,
\* before the items are saved.
ResolvedFanOutFirst(l, found, reg, target) ==
  [FanOut([l EXCEPT !.recipients = found], reg, target) EXCEPT
     !.doc.status = l.doc.status,
     !.doc.deliveryCount = l.doc.deliveryCount,
     !.doc.items = ItemsOf(found),
     !.doc.dirty = l.doc.dirty \cup {"items"},
     !.itemsWrite = "pending",
     !.pc = "saveItems"]

\* sendNotificationNow from the result of User.find(recipientQuery) to the
\* save of the items: notification.items = recipients.map(...).
Resolved(l, found, reg, target) ==
  [l EXCEPT !.recipients = found,
            !.doc.items = ItemsOf(found),
            !.doc.dirty = @ \cup {"items"},
            !.itemsWrite = "pending",
            !.pc = "saveItems"]

\* 1) explicit items: User.find({ _id: { $in: userIds } }), then the fan-out.
SendFindItemsUsers(p) ==
  /\ proc[p].pc = "findItemsUsers"
  /\ \E ok \in BOOLEAN :
       /\ Outcome(ok)
       /\ IF ok
          THEN LET found == FindByIds(userDb, ItemUsers(proc[p].doc.items))
                   l == [proc[p] EXCEPT !.recipients = found,
                                        !.inactive = Inactive(userDb, found)]
                   m == FanOut(l, connectedUsers, notifs[l.doc.id].target)
               IN  SetProc(p, m) /\ Pushes(m)
          ELSE SetProc(p, Caught(proc[p])) /\ UNCHANGED pushed
  /\ UNCHANGED <<userDb, notifs, now, handed, queryVars, registryVars>>

\* Mutant of SenderNotFound: the failure is recorded without its reason.
SenderNotFoundNoReason(l) ==
  [l EXCEPT !.doc.status = "failed",
            !.doc.dirty = @ \cup {"status"},
            !.pc = "saveSenderNotFound"]

\* sendNotificationNow: "if (!sender)", up to the save.
SenderNotFound(l) ==
  [l EXCEPT !.doc.status = "failed",
            !.doc.lastError = "sender_not_found",
            !.doc.dirty = @ \cup {"status", "meta"},
            !.pc = "saveSenderNotFound"]

\* 2) target-based resolution: User.findById(notification.sender).
SendFindSender(p) ==
  /\ proc[p].pc = "findSender"
  /\ \E ok \in BOOLEAN :
       /\ Outcome(ok)
       /\ IF ~ok THEN SetProc(p, Caught(proc[p]))
          ELSE IF ~userDb[notifs[proc[p].doc.id].sender].exists
          THEN SetProc(p, SenderNotFound(proc[p]))
          ELSE SetProc(p, [proc[p] EXCEPT !.pc = "findRecipients"])
  /\ UNCHANGED <<userDb, notifs, now, handed, pushed, queryVars, registryVars>>

\* The save of the sender_not_found failure; sendNotificationNow returns, or
\* the save throws into the catch block.
SendSaveSenderNotFound(p) ==
  /\ proc[p].pc = "saveSenderNotFound"
  /\ \E ok \in BOOLEAN, keep \in BOOLEAN :
       /\ Outcome(ok)
       /\ ok => keep
       /\ IF ok
          THEN /\ notifs' = SaveDoc(notifs, proc[p].doc)
               /\ SetProc(p, Returned(p, proc[p]))
          ELSE /\ UNCHANGED notifs
               /\ SetProc(p, Caught([proc[p] EXCEPT
                                       !.doc = AfterFailedSave(@, keep)]))
  /\ UNCHANGED <<userDb, now, handed, pushed, queryVars, registryVars>>

\* User.find(recipientQuery); then notification.items is assigned.
SendFindRecipients(p) ==
  /\ proc[p].pc = "findRecipients"
  /\ \E ok \in BOOLEAN :
       /\ Outcome(ok)
       /\ IF ok
          THEN LET n == notifs[proc[p].doc.id]
                   q == recipientQuery(UserDoc(n.sender), n.senderRole, n.target)
                   found == Find(userDb, q)
                   m == Resolved([proc[p] EXCEPT !.inactive = Inactive(userDb, found)],
                                 found, connectedUsers, n.target)
               IN  SetProc(p, m) /\ Pushes(m)
          ELSE SetProc(p, Caught(proc[p])) /\ UNCHANGED pushed
  /\ UNCHANGED <<userDb, notifs, now, handed, queryVars, registryVars>>

\* "persist items": the save of the resolved items, whose failure is logged
\* as non-fatal; then the fan-out.
SendSaveItems(p) ==
  /\ proc[p].pc = "saveItems"
  /\ \E ok \in BOOLEAN, keep \in BOOLEAN :
       /\ Outcome(ok)
       /\ ok => keep
       /\ notifs' = IF ok THEN SaveDoc(notifs, proc[p].doc) ELSE notifs
       /\ LET l == [proc[p] EXCEPT
                      !.doc = IF ok THEN Saved(@) ELSE AfterFailedSave(@, keep),
                      !.itemsWrite = IF ok THEN "written" ELSE "failed"]
              m == FanOut(l, connectedUsers, notifs[l.doc.id].target)
          IN  SetProc(p, m) /\ Pushes(m)
  /\ UNCHANGED <<userDb, now, handed, queryVars, registryVars>>

\* Mutant of AfterDeliveredUpdate: a failed update reaches the catch block
\* of sendNotificationNow.
AfterDeliveredUpdateFatal(l, ok) ==
  IF ok THEN Finalize([l EXCEPT !.marked = "written"])
  ELSE Caught([l EXCEPT !.marked = "failed"])

\* sendNotificationNow after the deliveredAt update: its own try/catch logs
\* a failure, and the record is finalized either way.
AfterDeliveredUpdate(l, ok) ==
  Finalize([l EXCEPT !.marked = IF ok THEN "written" ELSE "failed"])

\* Notification.updateOne(... items.$[elem].deliveredAt ...): a failure is
\* logged as non-fatal; then the record is finalized.
SendUpdateDelivered(p) ==
  /\ proc[p].pc = "updateDelivered"
  /\ \E ok \in BOOLEAN :
       /\ Outcome(ok)
       /\ notifs' =
            IF ok
            THEN [notifs EXCEPT ![proc[p].doc.id].items =
                    [i \in 1..Len(@) |->
                       IF @[i].user \in Range(proc[p].recipients)
                       THEN [@[i] EXCEPT !.deliveredAt = TRUE] ELSE @[i]]]
            ELSE notifs
       /\ SetProc(p, AfterDeliveredUpdate(proc[p], ok))
  /\ UNCHANGED <<userDb, now, handed, pushed, queryVars, registryVars>>

\* The save of status completed and deliveryCount: a failure is logged;
\* sendNotificationNow returns its stats.
SendSaveCompleted(p) ==
  /\ proc[p].pc = "saveCompleted"
  /\ \E ok \in BOOLEAN :
       /\ Outcome(ok)
       /\ notifs' = IF ok THEN SaveDoc(notifs, proc[p].doc) ELSE notifs
  /\ SetProc(p, Returned(p, proc[p]))
  /\ UNCHANGED <<userDb, now, handed, pushed, queryVars, registryVars>>

\* The save of the catch block: a failure is logged; sendNotificationNow
\* returns.
SendSaveFailed(p) ==
  /\ proc[p].pc = "saveFailed"
  /\ \E ok \in BOOLEAN :
       /\ Outcome(ok)
       /\ notifs' = IF ok THEN SaveDoc(notifs, proc[p].doc) ELSE notifs
  /\ SetProc(p, Returned(p, proc[p]))
  /\ UNCHANGED <<userDb, now, handed, pushed, queryVars, registryVars>>

\* ------------------------------------------------------------ scheduler
RECURSIVE Take(_, _)
\* .limit(n)
Take(s, n) == IF n = 0 \/ s = <<>> THEN <<>> ELSE <<Head(s)>> \o Take(Tail(s), n - 1)

IdSeq == [i \in 1..MaxNotifs |-> i]

\* The limit of the query in SpecLive, where more notifications are due than
\* one query returns.
LiveBatchLimit == 1

\* .limit(50); in SpecLive the limit is scaled down with the number of
\* notifications.
Limit == IF qPhase = "live" THEN LiveBatchLimit ELSE BatchLimit

\* Mutant of DueList: the query has no status condition.
DueListAnyStatus(store, t) ==
  LET IsDue(n) == store[n].status # "none" /\ store[n].scheduledAt <= t
  IN  Take(SelectSeq(IdSeq, IsDue), BatchLimit)

\* Mutant of DueList: the query has no scheduledAt condition.
DueListIgnoresTime(store, t) ==
  LET IsDue(n) == store[n].status = "scheduled"
  IN  Take(SelectSeq(IdSeq, IsDue), Limit)

\* Mutant of DueList: the limit is applied to the collection before the
\* conditions of the query.
DueListLimitFirst(store, t) ==
  LET IsDue(n) == store[n].status = "scheduled" /\ store[n].scheduledAt <= t
  IN  SelectSeq(Take(IdSeq, Limit), IsDue)

\* Notification.find({ status: "scheduled", scheduledAt: { $lte: now } }).limit(50)
DueList(store, t) ==
  LET IsDue(n) == store[n].status = "scheduled" /\ store[n].scheduledAt <= t
  IN  Take(SelectSeq(IdSeq, IsDue), Limit)

\* tick: the timer fires and the due notifications are queried; a failure of
\* the query is caught by the outer catch, an empty list ends the tick.
\* Executions of tick are interchangeable: a new one takes the lowest free
\* slot of Ticks.
TickStart(p) ==
  /\ p \in Ticks
  /\ proc[p].pc = "idle"
  /\ \A o \in Ticks : o < p => proc[o].pc # "idle"
  /\ \E ok \in BOOLEAN :
       /\ Outcome(ok)
       /\ LET list == DueList(notifs, now)
          IN  IF ok /\ list # <<>>
              THEN SetProc(p, [IdleProc EXCEPT !.pc = "findById", !.list = list, !.idx = 1])
              ELSE SetProc(p, IdleProc)
  /\ UNCHANGED <<userDb, notifs, now, handed, pushed, queryVars, registryVars>>

\* Notification.findById(doc._id), then notif.status = "sending".
TickFindById(p) ==
  /\ proc[p].pc = "findById"
  /\ \E ok \in BOOLEAN :
       /\ Outcome(ok)
       /\ LET id == proc[p].list[proc[p].idx]
          IN  IF ~ok THEN SetProc(p, [proc[p] EXCEPT !.pc = "markFailed"])
              ELSE IF notifs[id].status = "none" THEN SetProc(p, NextItem(proc[p]))
              ELSE SetProc(p, [proc[p] EXCEPT
                                 !.doc = [LoadDoc(notifs, id) EXCEPT
                                            !.status = "sending", !.dirty = {"status"}],
                                 !.pc = "saveSending"])
  /\ UNCHANGED <<userDb, notifs, now, handed, pushed, queryVars, registryVars>>

\* Mutant of TickSaveSending: the delivery engine is invoked whether or not
\* the save of the sending status succeeded.
TickSaveSendingUnsaved(p) ==
  /\ proc[p].pc = "saveSending"
  /\ \E ok \in BOOLEAN :
       /\ Outcome(ok)
       /\ notifs' = IF ok THEN SaveDoc(notifs, proc[p].doc) ELSE notifs
       /\ SetProc(p, EnterSend([proc[p] EXCEPT !.doc = Saved(@)]))
       /\ handed' = [handed EXCEPT ![proc[p].doc.id] = @ + 1]
  /\ UNCHANGED <<userDb, now, pushed, queryVars, registryVars>>

\* await notif.save() of status sending, then sendNotificationNow(notif) is
\* called; a failed save goes to the catch of the loop.
TickSaveSending(p) ==
  /\ proc[p].pc = "saveSending"
  /\ \E ok \in BOOLEAN :
       /\ Outcome(ok)
       /\ IF ok
          THEN /\ notifs' = SaveDoc(notifs, proc[p].doc)
               /\ SetProc(p, EnterSend([proc[p] EXCEPT !.doc = Saved(@)]))
               /\ handed' = [handed EXCEPT ![proc[p].doc.id] = @ + 1]
          ELSE /\ SetProc(p, [proc[p] EXCEPT !.pc = "markFailed"])
               /\ UNCHANGED <<notifs, handed>>
  /\ UNCHANGED <<userDb, now, pushed, queryVars, registryVars>>

\* The catch of the loop: Notification.findByIdAndUpdate(doc._id, { status:
\* "failed", ... }); if that throws, the outer catch ends the tick.
TickMarkFailed(p) ==
  /\ proc[p].pc = "markFailed"
  /\ \E ok \in BOOLEAN :
       /\ Outcome(ok)
       /\ LET id == proc[p].list[proc[p].idx]
          IN  IF ok
              THEN /\ notifs' = [notifs EXCEPT ![id].status = "failed",
                                               ![id].lastError = "error"]
                   /\ SetProc(p, NextItem(proc[p]))
              ELSE /\ UNCHANGED notifs
                   /\ SetProc(p, IdleProc)
  /\ UNCHANGED <<userDb, now, handed, pushed, queryVars, registryVars>>

\* ------------------------------------------------------ createNotification
\* The scheduledAt of a request body: undefined / null / "", a value that
\* new Date() cannot parse, or a date (its getTime(), in milliseconds).
NoDate == [kind |-> "missing", ms |-> 0]
BadDate == [kind |-> "invalid", ms |-> 0]
DateAt(ms) == [kind |-> "date", ms |-> ms]

\* Mutant of parseValidScheduledAt: a date of exactly now + 1000 ms is
\* accepted.
parseValidScheduledAtInclusive(raw, t) ==
  IF raw.kind = "missing" THEN Absent(0)
  ELSE IF raw.kind = "invalid" THEN Absent(0)
  ELSE IF raw.ms < t + ScheduleMarginMs THEN Absent(0)
  ELSE Some(raw.ms)

\* parseValidScheduledAt: the date, or null (has = FALSE) when there is none
\* or it is not later than now + 1000 ms.
parseValidScheduledAt(raw, t) ==
  IF raw.kind = "missing" THEN Absent(0)
  ELSE IF raw.kind = "invalid" THEN Absent(0)
  ELSE IF raw.ms <= t + ScheduleMarginMs THEN Absent(0)
  ELSE Some(raw.ms)

\* The request bodies tried in Spec: no target (the students of the sender's
\* department), and everybody, named by role.
SpecBodies ==
  {[k \in TargetKeys |->
      IF k \in {"departments", "levels", "roles"} THEN Absent(<<>>) ELSE Absent(FALSE)],
   [all |-> Some(TRUE), departments |-> Absent(<<>>), levels |-> Absent(<<>>),
    roles |-> Some(<<"student", "lecturer">>), staffOnly |-> Absent(FALSE),
    studentsOnly |-> Absent(FALSE)]}

\* The scheduledAt values tried in Spec: none, now + 1000 ms, now + 1500 ms.
ScheduledAtInputs(t) == {NoDate, DateAt(t + ScheduleMarginMs), DateAt(t + ClockStep)}

FreeIds == {n \in NotifIds : notifs[n].status = "none"}

\* createNotification from the role check on, for the sender document found:
\* refused for a sender that is not staff; else the notification is inserted,
\* and either the request ends ("Notification scheduled") or
\* sendNotificationNow is called. A failed insert ends the request with the
\* error.
CreateStep(sender, body, raw, ok) ==
  LET id == CHOOSE n \in FreeIds : \A m \in FreeIds : n <= m
      date == parseValidScheduledAt(raw, now)
      n == [status |-> IF date.has THEN "scheduled" ELSE "queued",
            sender |-> sender,
            senderRole |-> UserDoc(sender).role,
            target |-> StoredTarget(UserDoc(sender), body),
            scheduledAt |-> date.v,
            items |-> <<>>, deliveryCount |-> 0, lastError |-> "none"]
  IN  IF ~SenderAllowed(UserDoc(sender)) \/ ~ok
      THEN UNCHANGED <<notifs, proc>>
      ELSE /\ notifs' = [notifs EXCEPT ![id] = n]
           /\ IF date.has
              THEN UNCHANGED proc
              ELSE SetProc(Api, EnterSend([IdleProc EXCEPT
                                             !.doc = LoadDoc(notifs', id)]))

\* createNotification by the authenticated user `sender`, with content.
CreateNotification(sender, body, raw) ==
  /\ proc[Api].pc = "idle"
  /\ userDb[sender].exists
  /\ FreeIds # {}
  /\ \E ok \in BOOLEAN : Outcome(ok) /\ CreateStep(sender, body, raw, ok)
  /\ UNCHANGED <<userDb, now, handed, pushed, queryVars, registryVars>>

\* ------------------------------------------------------------ environment
\* Time passes, one ClockStep at a time.
AdvanceClock ==
  /\ now < MaxClockSteps * ClockStep
  /\ now' = now + ClockStep
  /\ UNCHANGED <<userDb, notifs, faults, proc, handed, pushed, queryVars, registryVars>>

\* deleteUser: User.findByIdAndDelete(id).
DeleteUser(u) ==
  /\ userDb[u].exists
  /\ faults < FaultBudget
  /\ faults' = faults + 1
  /\ userDb' = [userDb EXCEPT ![u].exists = FALSE]
  /\ UNCHANGED <<notifs, now, proc, handed, pushed, queryVars, registryVars>>

\* updateUser with { isActive: false }: User.findByIdAndUpdate(id, payload).
DeactivateUser(u) ==
  /\ userDb[u].exists
  /\ userDb[u].isActive
  /\ faults < FaultBudget
  /\ faults' = faults + 1
  /\ userDb' = [userDb EXCEPT ![u].isActive = FALSE]
  /\ UNCHANGED <<notifs, now, proc, handed, pushed, queryVars, registryVars>>

\* A connection of user uid opens; its role is the user's role.
LiveConnect(uid) ==
  /\ Connect(uid, UserDoc(uid).role, MaxLiveConnects)
  /\ UNCHANGED <<storeVars, queryVars>>

LiveDisconnect(sid) ==
  /\ Disconnect(sid)
  /\ UNCHANGED <<storeVars, queryVars>>

Init == StoreInit /\ RegistryInit /\ QueryIdle

Next ==
  \/ \E sender \in Users, body \in SpecBodies, raw \in ScheduledAtInputs(now) :
       CreateNotification(sender, body, raw)
  \/ \E p \in Ticks : TickStart(p)
  \/ \E p \in Ticks : TickFindById(p)
  \/ \E p \in Ticks : TickSaveSending(p)
  \/ \E p \in Ticks : TickMarkFailed(p)
  \/ \E p \in Procs : SendFindItemsUsers(p)
  \/ \E p \in Procs : SendFindSender(p)
  \/ \E p \in Procs : SendSaveSenderNotFound(p)
  \/ \E p \in Procs : SendFindRecipients(p)
  \/ \E p \in Procs : SendSaveItems(p)
  \/ \E p \in Procs : SendUpdateDelivered(p)
  \/ \E p \in Procs : SendSaveCompleted(p)
  \/ \E p \in Procs : SendSaveFailed(p)
  \/ AdvanceClock
  \/ \E u \in Users : DeleteUser(u)
  \/ \E u \in Users : DeactivateUser(u)
  \/ \E u \in Users : LiveConnect(u)
  \/ \E sid \in Sids : LiveDisconnect(sid)

Spec == Init /\ [][Next]_vars

\* ------------------------------------------------ the resolver pipeline
\* Senders of SpecQuery: every role, with no department, a department and a
\* mixed-case department (the User schema trims department, it does not
\* lower-case it); a levelAdviser is also tried with a second level.
SenderDepts == {Absent(<<>>), Some(<<"C">>), Some(<<"p", "C">>)}

QuerySenders ==
  {[role |-> r, department |-> d, level |-> l] :
     r \in Roles, d \in SenderDepts, l \in {100, 300}} \
  {s \in [role : Roles, department : SenderDepts, level : {300}] :
     s.role # "levelAdviser"}

DeptLists ==
  {<<>>} \cup {<<d>> : d \in StringsUpTo(MaxDeptLen)}
         \cup {<< <<" ">>, <<"p">> >>, << <<"C">>, <<"p">> >>}

LevelLists == {<<>>, <<300>>}

RoleLists == {<<>>, <<"lecturer">>, <<"student", "hod">>}

BodyTargets ==
  [all          : Opt(BOOLEAN, FALSE),
   departments  : Opt(DeptLists, <<>>),
   levels       : Opt(LevelLists, <<>>),
   roles        : Opt(RoleLists, <<>>),
   staffOnly    : Opt(BOOLEAN, FALSE),
   studentsOnly : Opt(BOOLEAN, FALSE)]

InitQueryInputs ==
  /\ qPhase = "input"
  /\ qSender \in QuerySenders
  /\ qBody \in BodyTargets
  /\ qTarget = "none"
  /\ qFilter = "none"
  /\ qScheduledAt = "none"
  /\ replies = {}

\* createNotification up to new Notification({... target ...}): a sender that
\* is not staff is refused, otherwise the target is stored.
QueryCreate ==
  /\ qPhase = "input"
  /\ IF SenderAllowed(qSender)
     THEN qPhase' = "created" /\ qTarget' = StoredTarget(qSender, qBody)
     ELSE qPhase' = "rejected" /\ UNCHANGED qTarget
  /\ UNCHANGED <<qSender, qBody, qFilter, qScheduledAt, replies>>

\* sendNotificationNow, target-based resolution: the filter of User.find.
\* notification.senderRole is sender.role as captured at creation.
QueryResolve ==
  /\ qPhase = "created"
  /\ qFilter' = recipientQuery(qSender, qSender.role, qTarget)
  /\ qPhase' = "resolved"
  /\ UNCHANGED <<qSender, qBody, qTarget, qScheduledAt, replies>>

InitRegistry == RegistryInit /\ QueryIdle /\ StoreInit

NextRegistry ==
  \/ RegConnect /\ UNCHANGED <<queryVars, storeVars>>
  \/ RegDisconnect /\ UNCHANGED <<queryVars, storeVars>>

SpecRegistry == InitRegistry /\ [][NextRegistry]_vars

\* SpecStale: SpecRegistry with disconnect events for handles the registry
\* does not hold.
InitStale == RegistryInit /\ QueryIdle /\ StoreInit

NextStale ==
  \/ RegConnect /\ UNCHANGED <<queryVars, storeVars>>
  \/ RegDisconnect /\ UNCHANGED <<queryVars, storeVars>>
  \/ \E sid \in Sids : StaleDisconnect(sid) /\ UNCHANGED <<queryVars, storeVars>>

SpecStale == InitStale /\ [][NextStale]_vars

InitQuery == InitQueryInputs /\ RegistryInit /\ StoreInit

NextQuery ==
  \/ QueryCreate /\ UNCHANGED <<registryVars, storeVars>>
  \/ QueryResolve /\ UNCHANGED <<registryVars, storeVars>>

SpecQuery == InitQuery /\ [][NextQuery]_vars

\* ------------------------------------------------- one request, examined
\* SpecCreate: POST /notifications with one scheduledAt value, kept in
\* qScheduledAt, at one reading of the clock; the request is followed
\* through createNotification and the delivery it starts.
CreateDates(t) ==
  {NoDate, BadDate, DateAt(0), DateAt(t + 500), DateAt(t + ScheduleMarginMs),
   DateAt(t + ScheduleMarginMs + 1), DateAt(t + 2 * ScheduleMarginMs)}

InitCreate ==
  /\ userDb = [u \in Users |-> [exists |-> TRUE, isActive |-> TRUE]]
  /\ notifs = [n \in NotifIds |-> NoNotif]
  /\ now \in {0, ClockStep}
  /\ faults = 0
  /\ proc = [p \in Procs |-> IdleProc]
  /\ handed = [n \in NotifIds |-> 0]
  /\ pushed = [n \in NotifIds |-> {}]
  /\ RegistryInit
  /\ qPhase = "request"
  /\ qSender = "none"
  /\ qBody = "none"
  /\ qTarget = "none"
  /\ qFilter = "none"
  /\ qScheduledAt \in CreateDates(now)
  /\ replies = {}

NextCreate ==
  \/ \E sender \in Users, body \in SpecBodies :
       CreateNotification(sender, body, qScheduledAt)
  \/ SendFindSender(Api)
  \/ SendSaveSenderNotFound(Api)
  \/ SendFindRecipients(Api)
  \/ SendSaveItems(Api)
  \/ SendUpdateDelivered(Api)
  \/ SendSaveCompleted(Api)
  \/ SendSaveFailed(Api)
  \/ \E u \in Users : DeleteUser(u)

SpecCreate == InitCreate /\ [][NextCreate]_vars

\* ----------------------------------------------------- one batch, examined
\* SpecBatch: the notifications were scheduled by the lecturer u1 at time 0
\* for ClockStep, the clock has reached ClockStep, and one execution of tick
\* works through the batch while store operations may fail.
ScheduledNotif(body) ==
  [status |-> "scheduled", sender |-> "u1", senderRole |-> UserDoc("u1").role,
   target |-> StoredTarget(UserDoc("u1"), body), scheduledAt |-> ClockStep,
   items |-> <<>>, deliveryCount |-> 0, lastError |-> "none"]

InitBatch ==
  /\ userDb = [u \in Users |-> [exists |-> TRUE, isActive |-> TRUE]]
  /\ notifs \in [NotifIds -> {ScheduledNotif(body) : body \in SpecBodies}]
  /\ now = ClockStep
  /\ faults = 0
  /\ proc = [p \in Procs |-> IdleProc]
  /\ handed = [n \in NotifIds |-> 0]
  /\ pushed = [n \in NotifIds |-> {}]
  /\ RegistryInit
  /\ qPhase = "batch"
  /\ qSender = "none"
  /\ qBody = "none"
  /\ qTarget = "none"
  /\ qFilter = "none"
  /\ qScheduledAt = "none"
  /\ replies = {}

NextBatch ==
  \/ TickStart(1)
  \/ TickFindById(1)
  \/ TickSaveSending(1)
  \/ TickMarkFailed(1)
  \/ SendFindSender(1)
  \/ SendFindRecipients(1)
  \/ SendSaveItems(1)
  \/ SendUpdateDelivered(1)
  \/ SendSaveCompleted(1)
  \/ SendSaveFailed(1)

SpecBatch == InitBatch /\ [][NextBatch]_vars

\* ------------------------------------------------ scheduler, progress
\* SpecLive: two ticks, which may overlap, over notifications that become
\* due together, more than one query returns; store operations succeed, the
\* clock advances, the timer keeps firing and every await returns.
InitLive ==
  /\ userDb = [u \in Users |-> [exists |-> TRUE, isActive |-> TRUE]]
  /\ notifs \in [NotifIds -> {ScheduledNotif(body) : body \in SpecBodies}]
  /\ now = 0
  /\ faults = 0
  /\ proc = [p \in Procs |-> IdleProc]
  /\ handed = [n \in NotifIds |-> 0]
  /\ pushed = [n \in NotifIds |-> {}]
  /\ RegistryInit
  /\ qPhase = "live"
  /\ qSender = "none"
  /\ qBody = "none"
  /\ qTarget = "none"
  /\ qFilter = "none"
  /\ qScheduledAt = "none"
  /\ replies = {}

NextLive ==
  \/ AdvanceClock
  \/ \E p \in Ticks : TickStart(p)
  \/ \E p \in Ticks : TickFindById(p)
  \/ \E p \in Ticks : TickSaveSending(p)
  \/ \E p \in Ticks : SendFindItemsUsers(p)
  \/ \E p \in Ticks : SendFindSender(p)
  \/ \E p \in Ticks : SendFindRecipients(p)
  \/ \E p \in Ticks : SendSaveItems(p)
  \/ \E p \in Ticks : SendUpdateDelivered(p)
  \/ \E p \in Ticks : SendSaveCompleted(p)

\* setInterval keeps calling tick, and a pending store operation returns.
FairLive ==
  /\ WF_vars(AdvanceClock)
  /\ \A p \in Ticks :
       /\ WF_vars(TickStart(p))
       /\ WF_vars(TickFindById(p))
       /\ WF_vars(TickSaveSending(p))
       /\ WF_vars(SendFindItemsUsers(p))
       /\ WF_vars(SendFindSender(p))
       /\ WF_vars(SendFindRecipients(p))
       /\ WF_vars(SendSaveItems(p))
       /\ WF_vars(SendUpdateDelivered(p))
       /\ WF_vars(SendSaveCompleted(p))

SpecLive == InitLive /\ [][NextLive]_vars /\ FairLive

\* ------------------------------------------- authoring requests, examined
\* The requests of SpecAuthor: whether req.user.id is set, whether the body
\* has content, and the user the token names.
Requests == [auth : BOOLEAN, content : BOOLEAN, sender : Users]

\* Mutant of CreateReply: the sender's role is not checked.
CreateReplyNoRoleCheck(auth, content, exists, allowed, ok) ==
  IF ~auth THEN "401 Unauthorized"
  ELSE IF ~content THEN "400 Content required"
  ELSE IF ~ok THEN "500"
  ELSE IF ~exists THEN "400 Sender not found"
  ELSE "201"

\* The reply of createNotification: 401 without req.user.id, 400 without
\* content, 400 when the sender's document is not found, 403 when the
\* sender is not staff, 201 after the insert; an error of a store operation
\* goes to next(err).
CreateReply(auth, content, exists, allowed, ok) ==
  IF ~auth THEN "401 Unauthorized"
  ELSE IF ~content THEN "400 Content required"
  ELSE IF ~ok THEN "500"
  ELSE IF ~exists THEN "400 Sender not found"
  ELSE IF ~allowed THEN "403 Forbidden"
  ELSE "201"

\* createNotification for the request req with target `body` and scheduledAt
\* `raw`. The request and its reply are recorded.
CreateRequest(req, body, raw) ==
  \E ok \in BOOLEAN :
    LET reply == CreateReply(req.auth, req.content, userDb[req.sender].exists,
                             SenderAllowed(UserDoc(req.sender)), ok)
    IN  /\ (~req.auth \/ ~req.content) => ok
        /\ Outcome(ok)
        /\ reply = "201" => (proc[Api].pc = "idle" /\ FreeIds # {})
        /\ IF reply = "201"
           THEN CreateStep(req.sender, body, raw, ok)
           ELSE UNCHANGED <<notifs, proc>>
        /\ qSender' = req
        /\ replies' = replies \cup {reply}
        /\ UNCHANGED <<qPhase, qBody, qTarget, qFilter, qScheduledAt>>
        /\ UNCHANGED <<userDb, now, handed, pushed, registryVars>>

\* SpecAuthor: authoring requests of every kind, while an accepted immediate
\* notification is being delivered, users are removed and connections open.
InitAuthor ==
  /\ StoreInit
  /\ RegistryInit
  /\ qPhase = "author"
  /\ qSender = [auth |-> FALSE, content |-> FALSE, sender |-> "u1"]
  /\ qBody = "none"
  /\ qTarget = "none"
  /\ qFilter = "none"
  /\ qScheduledAt = "none"
  /\ replies = {}

NextAuthor ==
  \/ \E req \in Requests, body \in SpecBodies, raw \in {NoDate, DateAt(now + ClockStep)} :
       CreateRequest(req, body, raw)
  \/ SendFindSender(Api)
  \/ SendSaveSenderNotFound(Api)
  \/ SendFindRecipients(Api)
  \/ SendSaveItems(Api)
  \/ SendUpdateDelivered(Api)
  \/ SendSaveCompleted(Api)
  \/ SendSaveFailed(Api)
  \/ \E u \in Users : DeleteUser(u)
  \/ \E u \in Users : LiveConnect(u)

SpecAuthor == InitAuthor /\ [][NextAuthor]_vars

\* getMyNotifications: the notifications found by { "items.user": uid }.
Feed(store, uid) ==
  {n \in NotifIds : store[n].status # "none" /\ uid \in ItemUsers(store[n].items)}

\* ------------------------------------------------- read marking, examined
\* Most markAsRead requests of one user for one notification in SpecRead.
MaxReadCalls == 2

\* The first item of `uid` in items, 0 when there is none: the element the
\* positional operator $ of the update addresses.
ItemIndex(items, uid) ==
  IF \E i \in 1..Len(items) : items[i].user = uid
  THEN CHOOSE i \in 1..Len(items) :
         items[i].user = uid /\ \A j \in 1..(i - 1) : items[j].user # uid
  ELSE 0

\* Mutant of MarkRead: the read flag is flipped.
MarkReadToggle(items, uid) ==
  LET i == ItemIndex(items, uid)
  IN  IF i = 0 THEN items
      ELSE [items EXCEPT ![i].read = ~@, ![i].deliveredAt = TRUE]

\* { $set: { "items.$.read": true, "items.$.deliveredAt": new Date() } } on
\* the document matched by { _id, "items.user": uid }.
MarkRead(items, uid) ==
  LET i == ItemIndex(items, uid)
  IN  IF i = 0 THEN items
      ELSE [items EXCEPT ![i].read = TRUE, ![i].deliveredAt = TRUE]

\* The result object of updateOne, a field the driver does not report being
\* undefined (-1): mongoose 5 reports n and nModified, later versions
\* matchedCount and modifiedCount.
UpdateResult(shape, matched, modified) ==
  IF shape = "n/nModified"
  THEN [matchedCount |-> -1, nModified |-> modified]
  ELSE [matchedCount |-> matched, nModified |-> -1]

ResultShapes == {"n/nModified", "matchedCount/modifiedCount"}

\* The read state of uid's item before a request: "none" without an item.
ItemState(items, uid) ==
  LET i == ItemIndex(items, uid)
  IN  IF i = 0 THEN "none" ELSE IF items[i].read THEN "read" ELSE "unread"

\* markAsRead by the authenticated user uid for notification n. The request
\* and its reply are recorded.
MarkAsRead(uid, n) ==
  LET earlier == {r \in replies : r.user = uid /\ r.notif = n}
      items == notifs[n].items
      matched == IF notifs[n].status # "none" /\ ItemIndex(items, uid) # 0 THEN 1 ELSE 0
  IN  /\ Cardinality(earlier) < MaxReadCalls
      /\ \E ok \in BOOLEAN, shape \in ResultShapes :
           LET resu == UpdateResult(shape, matched, matched)
               code == IF ~ok THEN "500"
                       ELSE IF resu.matchedCount = 0 /\ resu.nModified = 0 THEN "404"
                       ELSE "200"
           IN  /\ Outcome(ok)
               /\ notifs' = IF ok /\ matched = 1
                             THEN [notifs EXCEPT ![n].items = MarkRead(@, uid)]
                             ELSE notifs
               /\ replies' = replies \cup
                     {[user |-> uid, notif |-> n, nth |-> Cardinality(earlier) + 1,
                       before |-> ItemState(items, uid), code |-> code]}
      /\ UNCHANGED <<qPhase, qSender, qBody, qTarget, qFilter, qScheduledAt>>
      /\ UNCHANGED <<userDb, now, proc, handed, pushed, registryVars>>

\* SpecRead: immediate notifications are created and delivered while users
\* mark them read.
InitRead ==
  /\ StoreInit
  /\ RegistryInit
  /\ qPhase = "read"
  /\ qSender = "none"
  /\ qBody = "none"
  /\ qTarget = "none"
  /\ qFilter = "none"
  /\ qScheduledAt = "none"
  /\ replies = {}

NextRead ==
  \/ \E sender \in Users, body \in SpecBodies :
       CreateNotification(sender, body, NoDate)
  \/ SendFindSender(Api)
  \/ SendFindRecipients(Api)
  \/ SendSaveItems(Api)
  \/ SendUpdateDelivered(Api)
  \/ SendSaveCompleted(Api)
  \/ SendSaveFailed(Api)
  \/ \E uid \in Users, n \in NotifIds : MarkAsRead(uid, n)

SpecRead == InitRead /\ [][NextRead]_vars

\* SpecReadTicks: users mark a scheduled notification read while ticks, which
\* may overlap, deliver it.  The store holds one due notification.
InitReadTicks ==
  /\ userDb = [u \in Users |-> [exists |-> TRUE, isActive |-> TRUE]]
  /\ \E body \in SpecBodies :
       notifs = [n \in NotifIds |-> IF n = 1 THEN ScheduledNotif(body) ELSE NoNotif]
  /\ now = ClockStep
  /\ faults = 0
  /\ proc = [p \in Procs |-> IdleProc]
  /\ handed = [n \in NotifIds |-> 0]
  /\ pushed = [n \in NotifIds |-> {}]
  /\ RegistryInit
  /\ qPhase = "readticks"
  /\ qSender = "none"
  /\ qBody = "none"
  /\ qTarget = "none"
  /\ qFilter = "none"
  /\ qScheduledAt = "none"
  /\ replies = {}

NextReadTicks ==
  \/ \E p \in Ticks : TickStart(p)
  \/ \E p \in Ticks : TickFindById(p)
  \/ \E p \in Ticks : TickSaveSending(p)
  \/ \E p \in Ticks : TickMarkFailed(p)
  \/ \E p \in Ticks : SendFindItemsUsers(p)
  \/ \E p \in Ticks : SendFindSender(p)
  \/ \E p \in Ticks : SendFindRecipients(p)
  \/ \E p \in Ticks : SendSaveItems(p)
  \/ \E p \in Ticks : SendUpdateDelivered(p)
  \/ \E p \in Ticks : SendSaveCompleted(p)
  \/ \E p \in Ticks : SendSaveFailed(p)
  \/ \E uid \in Users : MarkAsRead(uid, 1)

SpecReadTicks == InitReadTicks /\ [][NextReadTicks]_vars

\* --------------------------------------------------- fan-out, examined
\* Connections opened in SpecFanOut.
MaxFanOutConnects == 2

\* An emit to the open connection sid throws from now on.
BreakSocket(sid) ==
  /\ sockets[sid].state = "open"
  /\ sockets' = [sockets EXCEPT ![sid].state = "broken"]
  /\ UNCHANGED <<connectedUsers, connects, userOffline, onlinePeriods>>

\* SpecFanOut: immediate notifications are created and delivered while
\* connections open and close and emits to some connections throw.
InitFanOut ==
  /\ StoreInit
  /\ RegistryInit
  /\ qPhase = "fanout"
  /\ qSender = "none"
  /\ qBody = "none"
  /\ qTarget = "none"
  /\ qFilter = "none"
  /\ qScheduledAt = "none"
  /\ replies = {}

NextFanOut ==
  \/ \E sender \in Users, body \in SpecBodies :
       CreateNotification(sender, body, NoDate)
  \/ SendFindSender(Api)
  \/ SendFindRecipients(Api)
  \/ SendSaveItems(Api)
  \/ SendUpdateDelivered(Api)
  \/ SendSaveCompleted(Api)
  \/ SendSaveFailed(Api)
  \/ \E u \in Users :
       Connect(u, UserDoc(u).role, MaxFanOutConnects)
         /\ UNCHANGED <<storeVars, queryVars>>
  \/ \E sid \in Sids : LiveDisconnect(sid)
  \/ \E sid \in Sids : BreakSocket(sid) /\ UNCHANGED <<storeVars, queryVars>>

SpecFanOut == InitFanOut /\ [][NextFanOut]_vars

\* =============================================================== claims
\* ---- SpecRegistry

\* C3: every entry present in the registry has a non-empty connection set.
C3_NoEmptyEntry ==
  \A u \in DOMAIN connectedUsers : connectedUsers[u].sockets # {}

\* A user's last connection was closed (the entry is gone) while another
\* user still has an entry.
C3_Witness ==
  \E u, v \in Users :
    /\ userOffline[u] >= 1
    /\ u \notin DOMAIN connectedUsers
    /\ v \in DOMAIN connectedUsers

\* C4: userOffline is emitted exactly once per online period, and only by the
\* disconnect that empties the user's connection set: closing a user's only
\* connection removes the entry and emits one event; closing one of two
\* leaves the entry with one connection and emits none.
C4_OfflineStep ==
  \A u \in Users :
    LET before == IF u \in DOMAIN connectedUsers
                  THEN Cardinality(connectedUsers[u].sockets) ELSE 0
        after  == IF u \in DOMAIN connectedUsers'
                  THEN Cardinality(connectedUsers'[u].sockets) ELSE 0
        emitted == userOffline'[u] - userOffline[u]
    IN  /\ emitted \in {0, 1}
        /\ emitted = 1 <=> (before = 1 /\ u \notin DOMAIN connectedUsers')
        /\ (before = 2 /\ after < before) =>
              (u \in DOMAIN connectedUsers' /\ after = 1 /\ emitted = 0)
        /\ (before = 1 /\ after < before) =>
              (u \notin DOMAIN connectedUsers' /\ emitted = 1)

C4_OncePerPeriod ==
  \A u \in Users :
    userOffline[u] = onlinePeriods[u] - (IF OpenSockets(u) # {} THEN 1 ELSE 0)

C4_OfflineOncePerOnlinePeriod == [][C4_OfflineStep]_vars /\ []C4_OncePerPeriod

\* One user has finished an online period (one userOffline), and another has
\* closed one of two connections and is still registered with one.
C4_Witness ==
  \E u, v \in Users :
    /\ u # v
    /\ userOffline[u] = 1 /\ onlinePeriods[u] = 1
    /\ v \in DOMAIN connectedUsers
    /\ Cardinality(connectedUsers[v].sockets) = 1
    /\ userOffline[v] = 0
    /\ \E s \in Sids : sockets[s].state = "closed" /\ sockets[s].uid = v

\* ---- Spec

\* C1: once a notification's stored status is completed or failed, no later
\* action changes it to another value.
C1_TerminalStatusStep ==
  \A n \in NotifIds :
    notifs[n].status \in {"completed", "failed"} =>
      notifs'[n].status = notifs[n].status

C1_TerminalStatusFinal == [][C1_TerminalStatusStep]_vars

\* C2: under any interleaving of scheduler ticks, each due scheduled
\* notification is handed to the delivery engine at most once.
C2_HandedAtMostOnce == \A n \in NotifIds : handed[n] <= 1

\* C5: the persisted DeliveryItem list of every notification contains each
\* user id at most once.
C5_ItemsUniquePerUser ==
  \A n \in NotifIds :
    \A i, j \in 1..Len(notifs[n].items) :
      i # j => notifs[n].items[i].user # notifs[n].items[j].user

\* A delivery that started from an already persisted list of two items has
\* reached its final save.
C5_Witness ==
  \E p \in Procs :
    /\ proc[p].pc = "saveCompleted"
    /\ ~proc[p].byTarget
    /\ Len(notifs[proc[p].doc.id].items) >= 2

C6_PushAfterWriteReturned ==
  \A p \in Procs :
    (proc[p].byTarget /\ proc[p].sentTo # {}) =>
       proc[p].itemsWrite \in {"written", "failed"}

C6_WriteStep ==
  \A p \in Procs :
    (proc[p].itemsWrite = "pending" /\ proc'[p].itemsWrite = "written") =>
       /\ proc[p].sentTo = {}
       /\ notifs'[proc[p].doc.id].items = ItemsOf(proc[p].recipients)

C7_RolesOverrideBooleans ==
  (qPhase = "resolved" /\ qTarget.roles # <<>>) =>
     qFilter.role = InFilter(Range(qTarget.roles))

\* C8: when target.all is true the filter has no department restriction and
\* no level restriction, whatever departments, levels and the sender are.
C8_AllBypass ==
  (qPhase = "resolved" /\ qTarget.all) =>
     /\ qFilter.department.kind = "none"
     /\ qFilter.level.kind = "none"
     /\ qFilter.isActive

\* target.all with departments and levels given, from a department-scoped
\* sender that has a department.
C8_Witness ==
  /\ qPhase = "resolved"
  /\ qTarget.all
  /\ qTarget.departments # <<>>
  /\ qTarget.levels # <<>>
  /\ qSender.role = "lecturer"
  /\ qSender.department.has

\* Whether string n is string d trimmed and lower-cased, stated on the
\* characters: no outer blank, no upper-case letter, and d's letters in order.
IsNormalFormOf(n, d) ==
  /\ n # <<>> => (n[1] # " " /\ n[Len(n)] # " ")
  /\ \A i \in 1..Len(n) : n[i] # "C"
  /\ \E lead, trail \in 0..Len(d) :
       /\ lead + Len(n) + trail = Len(d)
       /\ \A i \in 1..lead : d[i] = " "
       /\ \A i \in 1..trail : d[Len(d) + 1 - i] = " "
       /\ \A i \in 1..Len(n) :
            n[i] = (IF d[lead + i] = "C" THEN "c" ELSE d[lead + i])

\* C9: with target.all false and no target departments, the filter is
\* restricted to the sender's own normalized department if and only if the
\* sender's role is lecturer, hod or levelAdviser and the sender has a
\* department; otherwise there is no department restriction.
C9_SenderDepartmentDefault ==
  (qPhase = "resolved" /\ ~qTarget.all /\ qTarget.departments = <<>>) =>
     IF /\ qSender.role \in {"lecturer", "hod", "levelAdviser"}
        /\ qSender.department.has
        /\ qSender.department.v # <<>>
     THEN /\ qFilter.department.kind = "eq"
          /\ \E n \in qFilter.department.v :
               /\ qFilter.department.v = {n}
               /\ IsNormalFormOf(n, qSender.department.v)
     ELSE qFilter.department.kind = "none"

\* A levelAdviser with a mixed-case department and no target departments.
C9_Witness ==
  /\ qPhase = "resolved"
  /\ ~qTarget.all
  /\ qTarget.departments = <<>>
  /\ qSender.role = "levelAdviser"
  /\ qSender.department = Some(<<"p", "C">>)
  /\ qFilter.department = EqFilter(<<"p", "c">>)

\* C34: with target.all false and target departments given, the filter
\* restricts the department to exactly the normalized target departments and
\* the sender's own department is not used; with target levels given it
\* restricts the level to exactly those levels, and without them there is no
\* level restriction.
C34_TargetNarrowing ==
  (qPhase = "resolved" /\ ~qTarget.all) =>
     /\ qTarget.departments # <<>> =>
          /\ qFilter.department.kind = "in"
          /\ \A n \in qFilter.department.v :
               \E i \in 1..Len(qTarget.departments) :
                 IsNormalFormOf(n, qTarget.departments[i])
          /\ \A i \in 1..Len(qTarget.departments) :
               \E n \in qFilter.department.v :
                 IsNormalFormOf(n, qTarget.departments[i])
     /\ IF qTarget.levels # <<>>
        THEN /\ qFilter.level.kind = "in"
             /\ qFilter.level.v = Range(qTarget.levels)
        ELSE qFilter.level.kind = "none"

\* A lecturer of department "pc" targets the departments "C" and "p" and the
\* level 300: the filter names "c" and "p", not "pc", and level 300.
C34_Witness ==
  /\ qPhase = "resolved"
  /\ ~qTarget.all
  /\ qBody.departments = Some(<< <<"C">>, <<"p">> >>)
  /\ qTarget.levels = <<300>>
  /\ qSender.role = "lecturer"
  /\ qSender.department = Some(<<"p", "C">>)
  /\ qFilter.department = InFilter({<<"c">>, <<"p">>})
  /\ qFilter.level = InFilter({300})

\* C10: with no target supplied, the stored target has studentsOnly = true
\* for every staff sender role; dean, subDean and admin also get all = true,
\* the other staff roles get studentsOnly without all.
C10_DefaultTargetStudentsOnly ==
  (qPhase \in {"created", "resolved"} /\ KeyCount(qBody) = 0) =>
     /\ qTarget.studentsOnly
     /\ qTarget.all <=> qSender.role \in {"dean", "subDean", "admin"}

\* C11: a notification created by a dean with an empty target is resolved
\* with the filter { isActive: true, role: "student" }: no department and no
\* level restriction.
C11_DeanEmptyTargetFilter ==
  (qPhase = "resolved" /\ qSender.role = "dean" /\ KeyCount(qBody) = 0) =>
     /\ qTarget.all /\ qTarget.studentsOnly
     /\ qFilter = [isActive |-> TRUE, role |-> EqFilter("student"),
                   department |-> NoFilter, level |-> NoFilter]

\* A dean that has a department sent a request without a target.
C11_Witness ==
  /\ qPhase = "resolved"
  /\ qSender.role = "dean"
  /\ qSender.department.has
  /\ KeyCount(qBody) = 0
  /\ qFilter.role = EqFilter("student")

\* C12: for a levelAdviser with recorded level L, a target without levels
\* (key absent, or an empty list) is stored with levels [L]; a non-empty
\* levels list of the author is stored unchanged.
C12_LevelAdviserLevels ==
  (qPhase \in {"created", "resolved"} /\ qSender.role = "levelAdviser") =>
     IF qBody.levels.has /\ qBody.levels.v # <<>>
     THEN qTarget.levels = qBody.levels.v
     ELSE qTarget.levels = <<qSender.level>>

\* A levelAdviser of level 300 sent an empty levels list, and it was stored
\* as [300].
C12_Witness ==
  /\ qPhase = "created"
  /\ qSender.role = "levelAdviser"
  /\ qSender.level = 300
  /\ qBody.levels = Some(<<>>)
  /\ qTarget.levels = <<300>>

\* C13: with target.roles empty and studentsOnly and staffOnly both true,
\* the filter used by delivery restricts the role to student; the staff
\* roles are selected only when staffOnly is true and studentsOnly is false.
C13_StudentsOnlyWins ==
  (qPhase = "resolved" /\ qTarget.roles = <<>>) =>
     /\ (qTarget.studentsOnly /\ qTarget.staffOnly) =>
           qFilter.role = EqFilter("student")
     /\ qFilter.role = InFilter(StaffRoles) <=>
           (qTarget.staffOnly /\ ~qTarget.studentsOnly)

\* Both booleans were set, without roles.
C13_Witness ==
  /\ qPhase = "resolved"
  /\ qTarget.roles = <<>>
  /\ qTarget.studentsOnly /\ qTarget.staffOnly
  /\ qFilter.role = EqFilter("student")

\* C14 as claimed: with target.roles empty and studentsOnly and staffOnly
\* both true, or both false, the filter used to look up the recipients has
\* no role restriction.
C14_NoRoleRestrictionWhenEqual ==
  (qPhase = "resolved" /\ qTarget.roles = <<>>
     /\ (qTarget.studentsOnly <=> qTarget.staffOnly)) =>
     qFilter.role.kind = "none"

\* C14 as amended: with target.roles empty, the filter used to look up the
\* recipients has no role restriction exactly when studentsOnly and
\* staffOnly are both false; when both are true buildRecipientQuery adds no
\* role restriction, and sendNotificationNow then restricts the role to
\* student.
C14_NoRoleRestrictionWhenBothFalse ==
  (qPhase = "resolved" /\ qTarget.roles = <<>>) =>
     /\ qFilter.role.kind = "none" <=>
           (~qTarget.studentsOnly /\ ~qTarget.staffOnly)
     /\ (qTarget.studentsOnly <=> qTarget.staffOnly) =>
           buildRecipientQuery(qSender, qSender.role, qTarget).role.kind = "none"

\* Neither boolean is set and no roles are named: the filter has no role.
C14_Witness ==
  /\ qPhase = "resolved"
  /\ qTarget.roles = <<>>
  /\ ~qTarget.studentsOnly /\ ~qTarget.staffOnly
  /\ qBody.studentsOnly = Some(FALSE) /\ qBody.staffOnly = Some(FALSE)
  /\ qFilter.role = NoFilter

\* ---- Spec

\* C15 as claimed: no user who is inactive when the recipients are looked up
\* is in the recipient set of a delivery, on the target-resolution path or on
\* the path that starts from a persisted item list.
C15_NoInactiveRecipient == \A p \in Procs : proc[p].inactive = {}

\* C15 as amended: on the target-resolution path no user who is inactive at
\* the lookup is a recipient; on the path that starts from a persisted item
\* list the recipients are the existing users named by the items, looked up
\* by id whatever their active flag, and are handed to fan-out and counted.
C15_NoInactiveRecipientByTarget ==
  \A p \in Procs :
    /\ proc[p].byTarget => proc[p].inactive = {}
    /\ (~proc[p].byTarget /\ proc[p].pc \in {"updateDelivered", "saveCompleted"}) =>
         Range(proc[p].recipients) \subseteq ItemUsers(proc[p].doc.items)

\* A delivery from a persisted item list has reached its final save with a
\* recipient that was inactive at the lookup, and counts it.
C15_Witness ==
  \E p \in Procs :
    /\ ~proc[p].byTarget
    /\ proc[p].pc = "saveCompleted"
    /\ proc[p].inactive # {}
    /\ proc[p].doc.deliveryCount = Cardinality(ItemUsers(proc[p].doc.items))

\* The positions of a handler inside sendNotificationNow.
SendPcs ==
  {"findItemsUsers", "findSender", "saveSenderNotFound", "findRecipients",
   "saveItems", "updateDelivered", "saveCompleted", "saveFailed"}

\* The positions of a handler to which sendNotificationNow has returned.
ReturnedPcs == {"idle", "findById"}

C17_SenderNotFoundStep ==
  \A p \in Procs :
    LET id == proc[p].doc.id
        moved == proc'[p] # proc[p]
    IN  /\ (proc[p].pc = "findSender" /\ moved /\ faults' = faults
              /\ ~userDb[notifs[id].sender].exists) =>
               /\ proc'[p].pc = "saveSenderNotFound"
               /\ proc'[p].doc.status = "failed"
               /\ proc'[p].doc.lastError = "sender_not_found"
               /\ proc'[p].recipients = <<>>
               /\ proc'[p].sentTo = {}
               /\ notifs' = notifs
               /\ pushed' = pushed
        /\ (proc[p].pc = "saveSenderNotFound" /\ moved /\ faults' = faults) =>
               /\ notifs'[id].status = "failed"
               /\ notifs'[id].lastError = "sender_not_found"
               /\ notifs'[id].items = notifs[id].items
               /\ proc[p].doc.items = <<>>
               /\ pushed' = pushed
               /\ proc'[p].pc \in ReturnedPcs
        /\ (proc[p].pc = "saveSenderNotFound" /\ moved /\ faults' # faults) =>
               /\ proc'[p].pc = "saveFailed"
               /\ pushed' = pushed

\* C17: when a notification with an empty item list is delivered and its
\* sender no longer exists, the notification is saved with status failed and
\* lastError sender_not_found, sendNotificationNow returns with no recipients
\* and without throwing, no item is persisted and no notification:new event
\* is emitted.
C17_SenderNotFound == [][C17_SenderNotFoundStep]_vars

\* A notification whose sender was deleted is stored as failed with
\* sender_not_found, without items and without a push, while a connection
\* is open.
C17_Witness ==
  \E n \in NotifIds :
    /\ notifs[n].status = "failed"
    /\ notifs[n].lastError = "sender_not_found"
    /\ notifs[n].items = <<>>
    /\ pushed[n] = {}
    /\ ~userDb[notifs[n].sender].exists
    /\ DOMAIN connectedUsers # {}

C18_FailureStep ==
  \A p \in Procs :
    LET id == proc[p].doc.id
        moved == proc'[p] # proc[p]
        threw == moved /\ faults' = faults + 1
    IN  /\ (proc[p].pc \in SendPcs /\ moved) =>
               proc'[p].pc \in SendPcs \cup ReturnedPcs
        /\ (proc[p].pc \in {"findItemsUsers", "findSender", "findRecipients",
                             "saveSenderNotFound"} /\ threw) =>
               /\ proc'[p].pc = "saveFailed"
               /\ proc'[p].doc.status = "failed"
               /\ proc'[p].doc.lastError = "error"
        /\ (proc[p].pc = "saveFailed" /\ moved /\ faults' = faults) =>
               /\ notifs'[id].status = "failed"
               /\ notifs'[id].lastError = "error"
               /\ proc'[p].pc \in ReturnedPcs
        /\ (proc[p].pc \in {"saveItems", "updateDelivered"} /\ threw) =>
               /\ proc'[p].pc \in {"updateDelivered", "saveCompleted"}
               /\ proc'[p].doc.status # "failed"
        /\ (proc[p].pc = "saveCompleted" /\ threw) =>
               /\ proc'[p].pc \in ReturnedPcs
               /\ notifs' = notifs

C20_FinalizeStep ==
  \A p \in Procs :
    LET id == proc[p].doc.id
    IN  (proc[p].pc = "saveCompleted" /\ proc'[p] # proc[p] /\ faults' = faults) =>
           /\ notifs'[id].status = "completed"
           /\ notifs'[id].deliveryCount = Cardinality(Range(proc[p].recipients))
           /\ proc'[p].pc \in ReturnedPcs

C20_ResolvedRecipients ==
  \A p \in Procs :
    (proc[p].pc = "saveCompleted" /\ proc[p].byTarget) =>
       Range(proc[p].recipients) = ItemUsers(proc[p].doc.items)

\* C20: after a delivery that finishes without failure the stored status is
\* completed and deliveryCount is the number of distinct resolved recipients,
\* whatever the number of live connections (zero included).
C20_CompletedCountsRecipients ==
  [][C20_FinalizeStep]_vars /\ []C20_ResolvedRecipients

\* A notification completed with a recipient counted and nothing pushed: no
\* recipient had a connection.
C20_Witness ==
  \E n \in NotifIds :
    /\ notifs[n].status = "completed"
    /\ notifs[n].deliveryCount >= 1
    /\ pushed[n] = {}

C21_DeliveredStep ==
  \A p \in Procs :
    LET id == proc[p].doc.id
    IN  (proc[p].pc = "updateDelivered" /\ proc'[p] # proc[p]) =>
           \A i \in 1..Len(notifs[id].items) :
             (notifs'[id].items[i].deliveredAt /\ ~notifs[id].items[i].deliveredAt) =>
                \E sid \in proc[p].sentTo :
                  sockets[sid].uid = notifs[id].items[i].user

\* C21: a delivery sets deliveredAt on a recipient's item only if one of
\* that recipient's connections was reached by the fan-out; a recipient
\* without a registry entry at fan-out keeps deliveredAt unset.
C21_DeliveredOnlyIfReached == [][C21_DeliveredStep]_vars

C22_MarkFailureStep ==
  \A p \in Procs :
    LET id == proc[p].doc.id
        moved == proc'[p] # proc[p]
    IN  /\ (proc[p].pc = "updateDelivered" /\ moved /\ faults' = faults + 1) =>
               /\ proc'[p].marked = "failed"
               /\ proc'[p].pc = "saveCompleted"
               /\ proc'[p].doc.status = "completed"
               /\ proc'[p].doc.deliveryCount = Cardinality(Range(proc[p].recipients))
               /\ notifs' = notifs
        /\ (proc[p].pc = "saveCompleted" /\ proc[p].marked = "failed" /\ moved) =>
               /\ proc'[p].pc \in ReturnedPcs
               /\ faults' = faults =>
                    /\ notifs'[id].status = "completed"
                    /\ notifs'[id].deliveryCount
                         = Cardinality(Range(proc[p].recipients))

\* C22: if the store write that sets deliveredAt fails, the delivery still
\* finalizes: sendNotificationNow goes on to the final save and returns its
\* stats, and that save, unless it fails itself, stores the notification as
\* completed with deliveryCount the number of recipients.
C22_MarkFailureNonFatal == [][C22_MarkFailureStep]_vars

\* A notification delivered by createNotification is stored as completed
\* with its recipient counted while no item has deliveredAt set: the
\* deliveredAt update failed.
C22_Witness ==
  \E n \in NotifIds :
    /\ notifs[n].status = "completed"
    /\ notifs[n].deliveryCount >= 1
    /\ notifs[n].items # <<>>
    /\ \A i \in 1..Len(notifs[n].items) : ~notifs[n].items[i].deliveredAt
    /\ faults = 1
    /\ handed[n] = 0
    /\ proc[Api].pc = "idle"

\* ---- SpecBatch

\* Tick p is in the middle of processing notification n.
C30_Processing(p, n) ==
  \/ proc[p].pc \in {"findById", "saveSending", "markFailed"}
       /\ proc[p].list[proc[p].idx] = n
  \/ proc[p].pc \in SendPcs /\ proc[p].doc.id = n

\* C30: sending is never a resting state: whenever no tick is in the middle
\* of processing a notification, its stored status is not sending, even when
\* a store write failed.
C30_SendingNotResting ==
  \A n \in NotifIds :
    notifs[n].status = "sending" => \E p \in Ticks : C30_Processing(p, n)

C19_TickEndStep ==
  \A p \in Ticks :
    (proc[p].pc # "idle" /\ proc'[p].pc = "idle") =>
       proc[p].idx = Len(proc[p].list)

\* C19: within one tick, a failure while processing one due notification
\* (in the reload, the save of sending, the delivery, or the write that
\* records the failure) never keeps the rest of the batch from being
\* processed in that tick: a tick ends only after the last notification of
\* its list.
C19_BatchNeverCutShort == [][C19_TickEndStep]_vars

C24_SelectStep ==
  \A p \in Ticks :
    (proc[p].pc = "idle" /\ proc'[p].pc = "findById") =>
      /\ Len(proc'[p].list) <= BatchLimit
      /\ \A i \in 1..Len(proc'[p].list) :
           /\ notifs[proc'[p].list[i]].status = "scheduled"
           /\ notifs[proc'[p].list[i]].scheduledAt <= now

C25_FailedStep ==
  \A n \in NotifIds :
    notifs[n].status = "failed" =>
      /\ notifs'[n].status = "failed"
      /\ handed'[n] = handed[n]

\* C25: the scheduler never re-delivers a notification whose stored status is
\* failed: once failed is stored, no tick, not even one running concurrently,
\* moves it to sending or hands it to the delivery engine again.
C25_FailedNeverRedelivered == [][C25_FailedStep]_vars

C29_StatusStep ==
  /\ \A n \in NotifIds :
       LET old == notifs[n].status
           new == notifs'[n].status
           immediate == notifs'[n].scheduledAt = 0
       IN  /\ (old = "none" /\ new # "none") =>
                 new = IF immediate THEN "queued" ELSE "scheduled"
           /\ (old # "none" /\ immediate) =>
                 /\ new # "sending"
                 /\ old = "queued" => new \in {"queued", "completed", "failed"}
                 /\ handed'[n] = 0
           /\ old = "scheduled" => new \in {"scheduled", "sending", "failed"}
           /\ (new = "completed" /\ old # "completed" /\ ~immediate) =>
                 handed[n] >= 1
  /\ \A p \in Ticks :
       (proc[p].pc \notin SendPcs /\ proc'[p].pc \in SendPcs) =>
         /\ notifs'[proc'[p].doc.id].status = "sending"
         /\ handed'[proc'[p].doc.id] = handed[proc'[p].doc.id] + 1

\* C29: an immediate notification is stored queued, goes from queued only to
\* completed or failed and never has status sending; a scheduled notification
\* never goes from scheduled to completed and is completed only after sending
\* was stored for it; a tick invokes the delivery engine on a notification
\* only with the sending status stored by the save just before.
C29_StatusStateMachine == [][C29_StatusStep]_vars

\* Both kinds have run to the end: an immediate notification is stored
\* completed, and a scheduled one is stored completed after a tick stored
\* sending for it.
C29_Witness ==
  \E n, m \in NotifIds :
    /\ notifs[n].status = "completed" /\ notifs[n].scheduledAt = 0
    /\ notifs[m].status = "completed" /\ notifs[m].scheduledAt > 0
    /\ handed[m] >= 1

\* The users the items refer to, in order.
C31_ItemUsers(items) == [i \in 1..Len(items) |-> items[i].user]

C31_ItemsStep ==
  \A n \in NotifIds :
    notifs[n].items # <<>> =>
      C31_ItemUsers(notifs'[n].items) = C31_ItemUsers(notifs[n].items)

C35_ScheduledEventuallyTerminal ==
  \A n \in NotifIds :
    (notifs[n].status = "scheduled" /\ notifs[n].scheduledAt <= now)
      ~> (notifs[n].status \in {"completed", "failed"})

\* A tick selected as many notifications as the query returns while another
\* due notification was left for a later tick.
C35_Witness ==
  \E p \in Ticks, n \in NotifIds :
    /\ proc[p].pc = "findById"
    /\ Len(proc[p].list) = Limit
    /\ n \notin Range(proc[p].list)
    /\ notifs[n].status = "scheduled"
    /\ notifs[n].scheduledAt <= now

\* ---- Spec

\* Nothing has happened to a notification whose scheduledAt is still ahead.
C36_Untouched ==
  \A n \in NotifIds :
    notifs[n].scheduledAt > now =>
      /\ notifs[n].status = "scheduled"
      /\ notifs[n].items = <<>>
      /\ notifs[n].deliveryCount = 0
      /\ pushed[n] = {}
      /\ handed[n] = 0
      /\ \A p \in Procs :
           /\ proc[p].pc \in SendPcs => proc[p].doc.id # n
           /\ proc[p].pc # "idle" => n \notin Range(proc[p].list)

C36_CreateStep ==
  \A n \in NotifIds :
    (notifs[n].status = "none" /\ notifs'[n].status = "scheduled") =>
      /\ notifs'[n].items = <<>>
      /\ proc' = proc
      /\ pushed' = pushed

\* C36: a notification created with status scheduled causes no recipient
\* resolution, no item and no notification:new event before a tick that
\* starts at or after its scheduledAt: at creation its items are empty and
\* nothing is emitted, and nothing touches it while scheduledAt is ahead.
C36_ScheduledWaits == []C36_Untouched /\ [][C36_CreateStep]_vars

\* A notification waits for its scheduledAt while a tick has handed another
\* notification to the delivery engine.
C36_Witness ==
  \E n, m \in NotifIds :
    /\ notifs[n].status = "scheduled"
    /\ notifs[n].scheduledAt > now
    /\ handed[m] >= 1

\* ---- SpecRegistry

\* C37: after every sequence of connect and disconnect events the entry of a
\* user holds exactly the user's open connections, and the keys of the
\* registry are exactly the users with an open connection.
C37_RegistryIsOpenConnections ==
  /\ DOMAIN connectedUsers = {u \in Users : OpenSockets(u) # {}}
  /\ \A u \in DOMAIN connectedUsers : connectedUsers[u].sockets = OpenSockets(u)

\* One user has two open connections and a closed one while the other user
\* has closed the only connection it had.
C37_Witness ==
  \E u, v \in Users, a, b, c, d \in Sids :
    /\ u # v
    /\ a # b
    /\ u \in DOMAIN connectedUsers
    /\ connectedUsers[u].sockets = {a, b}
    /\ sockets[c].state = "closed" /\ sockets[c].uid = u
    /\ sockets[d].state = "closed" /\ sockets[d].uid = v
    /\ v \notin DOMAIN connectedUsers

\* C38: emitToRole(role, ...) returns exactly the number of connections the
\* event was delivered to, and those are exactly the connections subscribed
\* to the role, also after one user opened connections with different
\* roles. Stated for the room emit of routes/auth.js (delivered to the room,
\* counted from the entries) and for the per-connection emit of
\* config/socket.js (delivered to the connections of the entries).
C38_EmitToRoleExact ==
  \A role \in SocketRoles :
    /\ EmitToRoleCount(connectedUsers, role) = Cardinality(RoleRoom(role))
    /\ RoleSockets(connectedUsers, role) = RoleRoom(role)

\* ---- SpecStale

C28_StaleStep ==
  \A sid \in Sids :
    (sockets[sid].state = "closed" /\ sockets'[sid].state = "gone") =>
      /\ connectedUsers' = connectedUsers
      /\ userOffline' = userOffline

\* C28: a disconnect event for a handle the registry does not hold (its user
\* has no entry, or the user's entry does not contain the handle) leaves the
\* registry unchanged and emits no userOffline.
C28_StaleDisconnectNoOp == [][C28_StaleStep]_vars

\* Both cases have happened: a stale disconnect of handle a while its user
\* stayed registered through the older open connection c, and a stale
\* disconnect of handle b, the only connection its user ever had.
C28_Witness ==
  \E a, b, c \in Sids :
    /\ connects = 3
    /\ c < a
    /\ sockets[c].state = "open" /\ sockets[c].uid = sockets[a].uid
    /\ sockets[a].state = "gone"
    /\ sockets[b].state = "gone" /\ sockets[b].uid # sockets[a].uid

\* ---- SpecAuthor

\* The request is one the handler rejects: no authenticated sender, no
\* content, no document for the sender, or a sender that is not staff.
C27_Rejected(req) ==
  \/ ~req.auth
  \/ ~req.content
  \/ ~userDb[req.sender].exists
  \/ ~SenderAllowed(UserDoc(req.sender))

C27_RejectStep ==
  /\ (queryVars' # queryVars /\ C27_Rejected(qSender')) =>
        /\ UNCHANGED <<userDb, notifs, now, proc, handed, pushed, registryVars>>
        /\ "201" \notin replies' \ replies
  /\ (\E n \in NotifIds : notifs[n].status = "none" /\ notifs'[n].status # "none") =>
        ~C27_Rejected(qSender')

\* C27: a creation request rejected for validation or authorization (no
\* authenticated sender, missing content, sender not found, sender not
\* staff) creates no notification, starts no delivery and pushes no event:
\* the stores and the registry are unchanged.
C27_RejectedChangesNothing == [][C27_RejectStep]_vars

\* Each of the four rejections has been replied while a notification exists
\* and a user is connected.
C27_Witness ==
  /\ {"401 Unauthorized", "400 Content required", "400 Sender not found",
      "403 Forbidden"} \subseteq replies
  /\ \E n \in NotifIds : notifs[n].status # "none"
  /\ connectedUsers # <<>>

\* ---- SpecRead

\* The users and read flags of the items.
C26_ReadFlags(items) == [i \in 1..Len(items) |-> <<items[i].user, items[i].read>>]

C26_MarkStep ==
  \A r \in replies' \ replies :
    LET before == notifs[r.notif].items
        after == notifs'[r.notif].items
        i == ItemIndex(before, r.user)
    IN  (r.before # "none" /\ r.code # "500") =>
          /\ r.code = "200"
          /\ after[i].read
          /\ Len(after) = Len(before)
          /\ \A j \in 1..Len(before) :
               /\ after[j].user = before[j].user
               /\ j # i => after[j] = before[j]
          /\ r.before = "read" => C26_ReadFlags(after) = C26_ReadFlags(before)

\* C26: markRead is idempotent: for a user who has an item on the
\* notification, a call leaves read = true and replies 200, the first time
\* and again when the item is already read; the users and read flags of the
\* items after the second call are those after the first.
C26_MarkReadIdempotent == [][C26_MarkStep]_vars

\* A user marked the same notification read twice: the first request found
\* the item unread, the second found it read, and both were replied 200.
C26_Witness ==
  \E r1, r2 \in replies :
    /\ r1.user = r2.user /\ r1.notif = r2.notif
    /\ r1.nth = 1 /\ r1.before = "unread" /\ r1.code = "200"
    /\ r2.nth = 2 /\ r2.before = "read" /\ r2.code = "200"

C33_EmptyStep ==
  \A p \in Procs :
    LET id == proc[p].doc.id
        moved == proc'[p] # proc[p]
        empty == proc[p].byTarget /\ proc[p].recipients = <<>>
    IN  /\ (proc[p].pc = "saveItems" /\ moved /\ empty) =>
               /\ proc'[p].pc = "saveCompleted"
               /\ proc'[p].doc.status = "completed"
               /\ proc'[p].doc.deliveryCount = 0
        /\ (proc[p].pc = "saveCompleted" /\ moved /\ empty) =>
               /\ proc'[p].pc \in ReturnedPcs
               /\ faults' = faults =>
                    /\ notifs'[id].status = "completed"
                    /\ notifs'[id].deliveryCount = 0
                    /\ notifs'[id].items = <<>>
                    /\ notifs'[id].lastError = "none"

\* C33: when target resolution matches no user the delivery is not a
\* failure: the notification is stored as completed with deliveryCount 0 and
\* an empty item list, and sendNotificationNow returns without an error.
C33_ZeroMatchesCompletes == [][C33_EmptyStep]_vars

\* A notification whose only candidate recipient was removed before the
\* resolution is stored as completed with no item and deliveryCount 0.
C33_Witness ==
  \E n \in NotifIds :
    /\ notifs[n].status = "completed"
    /\ notifs[n].deliveryCount = 0
    /\ notifs[n].items = <<>>
    /\ proc[Api].pc = "idle"
    /\ \E u \in Users : ~userDb[u].exists

\* ---- SpecRead

\* What a markRead call of the user leaves alone: every other notification,
\* and on the notification itself the status, deliveryCount, target and the
\* items of the other users.
C40_Frame(r) ==
  /\ \A n \in NotifIds \ {r.notif} : notifs'[n] = notifs[n]
  /\ notifs'[r.notif].status = notifs[r.notif].status
  /\ notifs'[r.notif].deliveryCount = notifs[r.notif].deliveryCount
  /\ notifs'[r.notif].target = notifs[r.notif].target
  /\ Len(notifs'[r.notif].items) = Len(notifs[r.notif].items)
  /\ \A i \in 1..Len(notifs[r.notif].items) :
        /\ notifs'[r.notif].items[i].user = notifs[r.notif].items[i].user
        /\ notifs[r.notif].items[i].user # r.user =>
             notifs'[r.notif].items[i] = notifs[r.notif].items[i]

C40_NotFound(r) ==
  (r.before = "none" /\ r.code # "500") => (r.code = "404" /\ notifs' = notifs)

C40_FrameStep == \A r \in replies' \ replies : C40_Frame(r)

C40_MarkStep == \A r \in replies' \ replies : C40_Frame(r) /\ C40_NotFound(r)

\* C40: markRead by a user changes only that user's own item (read and
\* deliveredAt) on that notification; the items of other users and the
\* notification's status, deliveryCount and target are unchanged, and a user
\* with no item on the notification gets a not-found error with nothing
\* changed.
C40_MarkReadFrame == [][C40_MarkStep]_vars

C40_FrameOnly == [][C40_FrameStep]_vars

\* ---- SpecReadTicks

\* The user has an item with the read flag set.
C39_HasRead(items, u) == \E i \in 1..Len(items) : items[i].user = u /\ items[i].read

C39_ReadStep ==
  \A n \in NotifIds, u \in Users :
    C39_HasRead(notifs[n].items, u) => C39_HasRead(notifs'[n].items, u)

C23_FanOutStep ==
  \A p \in Procs :
    LET id == proc[p].doc.id
        target == notifs[id].target
        after == proc'[p]
    IN  /\ (proc[p].pc = "saveItems" /\ after # proc[p]) =>
               after.pc \in {"updateDelivered", "saveCompleted"}
        /\ (proc[p].pc \in {"saveItems", "findItemsUsers"}
              /\ after.pc \in {"updateDelivered", "saveCompleted"}) =>
               /\ after.doc.status # "failed"
               /\ \A u \in Range(after.recipients) \cap DOMAIN connectedUsers :
                    \A sid \in connectedUsers[u].sockets :
                      sockets[sid].state = "open" => sid \in after.sentTo
               /\ \A i \in 1..Len(target.roles) :
                    \A u \in DOMAIN connectedUsers :
                      connectedUsers[u].role = target.roles[i] =>
                        \A sid \in connectedUsers[u].sockets :
                          sockets[sid].state = "open" => sid \in after.sentTo

\* C23: a failure while pushing the event to one recipient or one role does
\* not abort the fan-out: every other connection of a recipient and of a
\* named role is still pushed to, and the notification is not marked failed
\* because of it.
C23_PushFailureIsolated == [][C23_FanOutStep]_vars

\* A fan-out has pushed to a connection while the emit to a connection of
\* one of its recipients threw.
C23_Witness ==
  \E p \in Procs :
    /\ proc[p].pc \in {"updateDelivered", "saveCompleted"}
    /\ proc[p].sentTo # {}
    /\ \E u \in Range(proc[p].recipients) \cap DOMAIN connectedUsers :
         \E sid \in connectedUsers[u].sockets : sockets[sid].state = "broken"

C32_CompletedStep ==
  \A p \in Procs :
    LET id == proc[p].doc.id
    IN  (/\ proc[p].pc = "saveCompleted"
         /\ proc'[p] # proc[p]
         /\ proc[p].byTarget
         /\ proc[p].itemsWrite = "written"
         /\ faults' = faults) =>
           /\ notifs'[id].status = "completed"
           /\ \A u \in Range(proc[p].recipients) :
                /\ u \in ItemUsers(notifs'[id].items)
                /\ id \in Feed(notifs', u)

\* C32: every user matched by target resolution has an item on the completed
\* notification, whether or not a connection of the user was pushed to, and
\* the notification is in the user's feed.
C32_MatchedUsersGetItems == [][C32_CompletedStep]_vars

\* A completed notification has an item for a user who was pushed nothing
\* and whose open connection registered after the fan-out.
C32_Witness ==
  \E n \in NotifIds, sid \in Sids :
    /\ notifs[n].status = "completed"
    /\ pushed[n] = {}
    /\ sockets[sid].state = "open"
    /\ sockets[sid].uid \in ItemUsers(notifs[n].items)
    /\ n \in Feed(notifs, sockets[sid].uid)

\* ---- SpecCreate

\* Whether the scheduledAt of the request is a valid timestamp strictly
\* greater than now + 1000 ms.
C16_Accepted == qScheduledAt.kind = "date" /\ qScheduledAt.ms > now + 1000

C16_CreateStep ==
  \A n \in NotifIds :
    (notifs[n].status = "none" /\ notifs'[n].status # "none") =>
       IF C16_Accepted
       THEN /\ notifs'[n].status = "scheduled"
            /\ notifs'[n].scheduledAt = qScheduledAt.ms
            /\ proc'[Api].pc = "idle"
       ELSE /\ notifs'[n].status = "queued"
            /\ proc'[Api].pc = "findSender"
            /\ proc'[Api].doc.id = n

C16_ScheduledOnlyIfAccepted ==
  \A n \in NotifIds :
    /\ notifs[n].status = "scheduled" => C16_Accepted
    /\ (notifs[n].status # "none" /\ ~C16_Accepted) => notifs[n].status # "scheduled"

====
